---- MODULE Spec2Model ----
(***************************************************************************)
(* A model of opsorch-core: the persistent plugin RPC runner               *)
(* (api/plugin_runner.go), the capability registry (registry/registry.go)  *)
(* and provider resolution at startup (api/*_handler.go, api/server.go,    *)
(* api/provider_config.go).                                                *)
(*                                                                         *)
(* The specifications of the module:                                       *)
(*   SpecRunner    callers of one plugin handle, its subprocess and pipes  *)
(*   SpecRegistry  Register and Get on the capability registries            *)
(*   SpecResolve   NewServerFromEnv resolving every capability in order    *)
(*   SpecServe     ServeHTTP dispatching one request to a capability       *)
(*   SpecConfigure POST /providers/<capability> and the next startup       *)
(*   SpecRegistryRace  goroutines calling one registry concurrently        *)
(*   SpecHandles   callers of several plugin handles                       *)
(*   SpecReplace   providers built and replaced over a process lifetime    *)
(*   SpecDispatch  ServeHTTP trying every handler, and what it writes      *)
(***************************************************************************)
EXTENDS Integers, Sequences, FiniteSets, TLC

\* ------------------------------------------------------------------ bounds
\* Concurrent callers of one plugin handle.
NumCallers == 2

\* Calls made on the handle, over all callers.
MaxCalls == 2

\* Registry operations in one behaviour of SpecRegistry.
MaxOps == 3

VARIABLES
    \* --- plugin runner (SpecRunner) ---
    mu,          \* pluginRunner.mu: the caller holding it, 0 when unlocked
    cmd,         \* pluginRunner.cmd: "nil" or "set"
    proc,        \* the subprocess: "none", "alive" or "dead"
    procCtx,     \* the context the subprocess was started under
    exitCause,   \* why the subprocess died: "none", "external" or "ctx"
    stdin,       \* requests written to the child's stdin and not yet read by it
    stdout,      \* responses written by the child and not yet decoded
    decErr,      \* json.Decoder's sticky error
    pc,          \* each caller's position in call
    callNo,      \* calls each caller has begun
    ctxDone,     \* whether the context of each caller's current call is cancelled
    outcome,     \* how each caller's current call returned
    result,      \* the response each caller's current call decoded
    atBegin,     \* what each caller's current call found when it was invoked
    starts,      \* subprocesses started on the handle so far
    written,     \* every request envelope written, in order
    readLog,     \* every response envelope decoded, in order
    \* --- registry (SpecRegistry, SpecResolve) ---
    providers,   \* Registry.providers of every capability: key -> constructor
    registered,  \* the successful registrations so far
    last,        \* the last registry operation and what it returned
    nops,        \* registry operations performed
    \* --- resolution (SpecResolve) ---
    env,         \* OPSORCH_<CAP>_PROVIDER / _CONFIG / _PLUGIN of every capability
    sec,         \* the secret provider handed to the loaders: "nil" or "store"
    store,       \* the secret store: key -> stored value
    step,        \* NewServerFromEnv's position: index of the next capability
    server,      \* "building", "built" (a *Server) or "aborted" (nil, err)
    handlers,    \* the provider of every capability handler built so far
    loaded,      \* what loadProviderConfig returned for every capability
    trace,       \* per capability: store reads, registry lookups, constructor runs
    \* --- dispatch (SpecServe) ---
    bearer,      \* Server.bearerToken, <<>> when none is set
    req,         \* the request at hand
    served,      \* whether ServeHTTP has returned for it
    resp,        \* the response written for it
    invoked,     \* the provider method calls made for it, in order
    audit,       \* the audit_log entries printed for it, in order
    envelopes,   \* request envelopes written to a plugin for it
    rpc,         \* the response envelope decoded from the plugin for it
    callErr,     \* the error the provider method returned
    callVal,     \* the value the provider method returned
    \* --- goroutines on one registry (SpecRegistryRace) ---
    rwmu,        \* Registry.mu: the goroutine holding it for writing, and the readers
    gpc,         \* each goroutine's position in its registry call
    gop,         \* the registry call each goroutine makes
    gret,        \* what each goroutine's call returned
    \* --- several plugin handles (SpecHandles) ---
    hpath,       \* pluginRunner.path of every handle
    hmu,         \* every mutex: the user holding it, 0 when unlocked
    hcmd,        \* pluginRunner.cmd of every handle: "nil" or "set"
    hproc,       \* every handle's subprocess: "none", "alive" or "dead"
    hin,         \* requests written to each subprocess and not yet read by it
    hout,        \* responses written by each subprocess and not yet decoded
    hof,         \* the handle each user calls
    hpc,         \* each user's position in call
    hres,        \* how each user's call returned
    hsaw,        \* whether a call on another handle was blocked when each user's call got its lock
    \* --- providers over a process lifetime (SpecReplace) ---
    objs,        \* the provider objects built so far, in the order they were built
    active,      \* s.<capability>.provider: the object it points at, 0 for nil
    pending,     \* the object a request in flight has read from the field, or 0
    \* --- the response writer (SpecDispatch) ---
    wrote        \* the responses written for the request, in the order written

runnerVars == <<mu, cmd, proc, procCtx, exitCause, stdin, stdout, decErr, pc,
                callNo, ctxDone, outcome, result, atBegin, starts, written, readLog>>
regVars == <<providers, registered, last, nops>>
resVars == <<env, sec, store, step, server, handlers, loaded, trace>>
serveVars == <<bearer, req, served, resp, invoked, audit, envelopes, rpc, callErr, callVal>>
raceVars == <<rwmu, gpc, gop, gret>>
handleVars == <<hpath, hmu, hcmd, hproc, hin, hout, hof, hpc, hres, hsaw>>
heapVars == <<objs, active, pending>>
dispVars == <<wrote>>
concVars == <<raceVars, handleVars, heapVars, dispVars>>
vars == <<runnerVars, regVars, resVars, serveVars, concVars>>

\* ----------------------------------------------------------------- strings
\* A string is a sequence of one-character strings.
Lower(ch) ==
    CASE ch = "A" -> "a" [] ch = "B" -> "b" [] ch = "F" -> "f" [] ch = "K" -> "k"
      [] ch = "M" -> "m" [] ch = "O" -> "o" [] ch = "C" -> "c" [] ch = "R" -> "r"
      [] ch = "I" -> "i" [] ch = "L" -> "l" [] ch = "S" -> "s" [] ch = "T" -> "t"
      [] OTHER -> ch

\* strings.ToLower
ToLower(s) == [i \in 1..Len(s) |-> Lower(s[i])]

IsSpace(ch) == ch = " "

RECURSIVE TrimLeft(_)
TrimLeft(s) == IF s # <<>> /\ IsSpace(Head(s)) THEN TrimLeft(Tail(s)) ELSE s

RECURSIVE TrimRight(_)
TrimRight(s) ==
    IF s # <<>> /\ IsSpace(s[Len(s)]) THEN TrimRight(SubSeq(s, 1, Len(s) - 1)) ELSE s

\* strings.TrimSpace
TrimSpace(s) == TrimRight(TrimLeft(s))

\* ============================================================ plugin runner
Callers == 1..NumCallers

\* context.Background(), and the context of caller c's current call.
Background == <<0, 0>>
CallCtx(c) == <<c, callNo[c]>>

\* The payload id of caller c's current call; an echoing plugin answers with it.
ReqId(c) == <<c, callNo[c]>>
NoResult == <<0, 0>>

\* A context is live unless it is a caller's current context and was cancelled.
CtxLive(x) == x = Background \/ ~(x[1] \in Callers /\ x = CallCtx(x[1]) /\ ctxDone[x[1]])

\* A return that unlocks by hand on the success path only.
ReturnUnlockOnSuccess(c, how, res) ==
    /\ pc' = [pc EXCEPT ![c] = "done"]
    /\ outcome' = [outcome EXCEPT ![c] = how]
    /\ result' = [result EXCEPT ![c] = res]
    /\ mu' = IF how = "ok" THEN 0 ELSE mu

\* defer r.mu.Unlock() and return: every exit of call.
Return(c, how, res) ==
    /\ pc' = [pc EXCEPT ![c] = "done"]
    /\ outcome' = [outcome EXCEPT ![c] = how]
    /\ result' = [result EXCEPT ![c] = res]
    /\ mu' = 0

RECURSIVE SumCalls(_)
SumCalls(n) == IF n = 0 THEN 0 ELSE callNo[n] + SumCalls(n - 1)

\* A caller invokes call with a fresh context.
CallBegin(c) ==
    /\ pc[c] \in {"idle", "done"}
    /\ SumCalls(NumCallers) < MaxCalls
    /\ callNo' = [callNo EXCEPT ![c] = @ + 1]
    /\ pc' = [pc EXCEPT ![c] = "lock"]
    /\ atBegin' = [atBegin EXCEPT ![c] =
                     [dead |-> proc = "dead",
                      cancelled |-> \E d \in Callers : ctxDone[d]]]
    /\ ctxDone' = [ctxDone EXCEPT ![c] = FALSE]
    /\ outcome' = [outcome EXCEPT ![c] = "none"]
    /\ result' = [result EXCEPT ![c] = NoResult]
    /\ UNCHANGED <<mu, cmd, proc, procCtx, exitCause, stdin, stdout, decErr,
                   starts, written, readLog>>
    /\ UNCHANGED <<regVars, resVars, serveVars, concVars>>

CanLockNoMutex == TRUE

\* r.mu.Lock() returns only when no other call holds the mutex.
CanLock == mu = 0

Lock(c) ==
    /\ pc[c] = "lock"
    /\ CanLock
    /\ mu' = c
    /\ pc' = [pc EXCEPT ![c] = "start"]
    /\ UNCHANGED <<cmd, proc, procCtx, exitCause, stdin, stdout, decErr, callNo,
                   ctxDone, outcome, result, atBegin, starts, written, readLog>>
    /\ UNCHANGED <<regVars, resVars, serveVars, concVars>>

NeedStartRespawn == cmd = "nil" \/ proc = "dead"

\* if r.cmd == nil
NeedStart == cmd = "nil"

StartCtxOfRequest(c) == CallCtx(c)

\* exec.CommandContext(context.Background(), r.path)
StartCtx(c) == Background

\* The start block with r.cmd assigned before cmd.Start() is known to succeed.
StartKeepsCmd(c) ==
    /\ pc[c] = "start"
    /\ IF NeedStart
       THEN \/ /\ CtxLive(StartCtx(c))
               /\ cmd' = "set"
               /\ proc' = "alive"
               /\ procCtx' = StartCtx(c)
               /\ exitCause' = "none"
               /\ starts' = starts + 1
               /\ stdin' = <<>>
               /\ stdout' = <<>>
               /\ decErr' = FALSE
               /\ pc' = [pc EXCEPT ![c] = "write"]
               /\ UNCHANGED <<mu, outcome, result>>
            \/ /\ Return(c, "start_err", NoResult)
               /\ cmd' = "set"
               /\ UNCHANGED <<proc, procCtx, exitCause, starts, stdin, stdout,
                              decErr>>
       ELSE /\ pc' = [pc EXCEPT ![c] = "write"]
            /\ UNCHANGED <<mu, cmd, proc, procCtx, exitCause, starts, stdin, stdout,
                           decErr, outcome, result>>
    /\ UNCHANGED <<callNo, ctxDone, atBegin, written, readLog>>
    /\ UNCHANGED <<regVars, resVars, serveVars, concVars>>

\* The process-start block of call: skipped when r.cmd is set; otherwise the
\* start succeeds (cmd, enc, dec are set) or fails (call returns the OS error).
Start(c) ==
    /\ pc[c] = "start"
    /\ IF NeedStart
       THEN \/ /\ CtxLive(StartCtx(c))
               /\ cmd' = "set"
               /\ proc' = "alive"
               /\ procCtx' = StartCtx(c)
               /\ exitCause' = "none"
               /\ starts' = starts + 1
               /\ stdin' = <<>>
               /\ stdout' = <<>>
               /\ decErr' = FALSE
               /\ pc' = [pc EXCEPT ![c] = "write"]
               /\ UNCHANGED <<mu, outcome, result>>
            \/ /\ Return(c, "start_err", NoResult)
               /\ UNCHANGED <<cmd, proc, procCtx, exitCause, starts, stdin, stdout,
                              decErr>>
       ELSE /\ pc' = [pc EXCEPT ![c] = "write"]
            /\ UNCHANGED <<mu, cmd, proc, procCtx, exitCause, starts, stdin, stdout,
                           decErr, outcome, result>>
    /\ UNCHANGED <<callNo, ctxDone, atBegin, written, readLog>>
    /\ UNCHANGED <<regVars, resVars, serveVars, concVars>>

EncodeReqTwice(q, id) == Append(Append(q, id), id)

\* r.enc.Encode(rpcRequest{...}) writes exactly one envelope.
EncodeReq(q, id) == Append(q, id)

\* The write of the request: a broken pipe when the child has exited.
Write(c) ==
    /\ pc[c] = "write"
    /\ IF proc = "alive"
       THEN /\ stdin' = EncodeReq(stdin, ReqId(c))
            /\ written' = Append(written, ReqId(c))
            /\ pc' = [pc EXCEPT ![c] = "read"]
            /\ UNCHANGED <<mu, outcome, result>>
       ELSE /\ Return(c, "write_err", NoResult)
            /\ UNCHANGED <<stdin, written>>
    /\ UNCHANGED <<cmd, proc, procCtx, exitCause, stdout, decErr, callNo, ctxDone,
                   atBegin, starts, readLog>>
    /\ UNCHANGED <<regVars, resVars, serveVars, concVars>>

\* r.dec.Decode(&resp) consumes exactly one envelope of the stream.
AfterDecode(q) == Tail(q)

StreamEndedOrCancelled(c) == proc = "dead" \/ ctxDone[c]

\* Decode on an empty stream returns (io.EOF) only when the child's end of
\* the pipe is closed; the caller's context plays no part.
StreamEnded(c) == proc = "dead"

\* The read of the response: blocks while the stream is empty and the child
\* lives; end of stream (and every decode after it) is an error. A decoded
\* envelope is a result, an error the plugin reports, or a result that does
\* not fit the output.
Read(c) ==
    /\ pc[c] = "read"
    /\ \/ /\ decErr
          /\ Return(c, "read_err", NoResult)
          /\ UNCHANGED <<stdout, decErr, readLog>>
       \/ /\ ~decErr
          /\ stdout # <<>>
          /\ stdout' = AfterDecode(stdout)
          /\ readLog' = Append(readLog, Head(stdout))
          /\ \/ Return(c, "ok", Head(stdout))
             \/ \E how \in {"plugin_err", "unmarshal_err"} : Return(c, how, NoResult)
          /\ UNCHANGED decErr
       \/ /\ ~decErr
          /\ stdout = <<>>
          /\ StreamEnded(c)
          /\ decErr' = TRUE
          /\ Return(c, "read_err", NoResult)
          /\ UNCHANGED <<stdout, readLog>>
    /\ UNCHANGED <<cmd, proc, procCtx, exitCause, stdin, callNo, ctxDone, atBegin,
                   starts, written>>
    /\ UNCHANGED <<regVars, resVars, serveVars, concVars>>

\* The caller's context is cancelled: a subprocess started under that context
\* is killed (os/exec), a subprocess started under Background is not.
Cancel(c) ==
    /\ pc[c] # "idle"
    /\ ~ctxDone[c]
    /\ ctxDone' = [ctxDone EXCEPT ![c] = TRUE]
    /\ IF proc = "alive" /\ procCtx = CallCtx(c)
       THEN /\ proc' = "dead"
            /\ exitCause' = "ctx"
            /\ stdin' = <<>>
       ELSE UNCHANGED <<proc, exitCause, stdin>>
    /\ UNCHANGED <<mu, cmd, procCtx, stdout, decErr, pc, callNo, outcome, result,
                   atBegin, starts, written, readLog>>
    /\ UNCHANGED <<regVars, resVars, serveVars, concVars>>

\* The plugin's loop: decode one request, write one response that echoes its id.
PluginAnswer ==
    /\ proc = "alive"
    /\ stdin # <<>>
    /\ stdout' = Append(stdout, Head(stdin))
    /\ stdin' = Tail(stdin)
    /\ UNCHANGED <<mu, cmd, proc, procCtx, exitCause, decErr, pc, callNo, ctxDone,
                   outcome, result, atBegin, starts, written, readLog>>
    /\ UNCHANGED <<regVars, resVars, serveVars, concVars>>

\* The subprocess exits (killed externally, or its loop returns): its end of
\* stdin closes; what it already wrote stays readable.
ProcExit ==
    /\ proc = "alive"
    /\ proc' = "dead"
    /\ exitCause' = "external"
    /\ stdin' = <<>>
    /\ UNCHANGED <<mu, cmd, procCtx, stdout, decErr, pc, callNo, ctxDone, outcome,
                   result, atBegin, starts, written, readLog>>
    /\ UNCHANGED <<regVars, resVars, serveVars, concVars>>

\* newPluginRunner: no process, no encoder, no decoder.
RunnerInit ==
    /\ mu = 0
    /\ cmd = "nil"
    /\ proc = "none"
    /\ procCtx = Background
    /\ exitCause = "none"
    /\ stdin = <<>>
    /\ stdout = <<>>
    /\ decErr = FALSE
    /\ pc = [c \in Callers |-> "idle"]
    /\ callNo = [c \in Callers |-> 0]
    /\ ctxDone = [c \in Callers |-> FALSE]
    /\ outcome = [c \in Callers |-> "none"]
    /\ result = [c \in Callers |-> NoResult]
    /\ atBegin = [c \in Callers |-> [dead |-> FALSE, cancelled |-> FALSE]]
    /\ starts = 0
    /\ written = <<>>
    /\ readLog = <<>>


\* The runner's actions.
RunnerNext ==
    \/ \E c \in Callers : CallBegin(c)
    \/ \E c \in Callers : Lock(c)
    \/ \E c \in Callers : Start(c)
    \/ \E c \in Callers : Write(c)
    \/ \E c \in Callers : Read(c)
    \/ \E c \in Callers : Cancel(c)
    \/ PluginAnswer
    \/ ProcExit

\* ================================================================= registry
\* The capabilities NewServerFromEnv wires, in its order.
ServerCaps ==
    <<"incident", "alert", "log", "metric", "ticket", "messaging", "service",
      "deployment">>
Caps == {ServerCaps[i] : i \in 1..Len(ServerCaps)}

\* Constructors: one that accepts every config, one that rejects every config.
Ctors == {"ctorOK", "ctorFail"}
NoCtor == "nil"

Foo == <<"F", "o", "o">>
FooLower == <<"f", "o", "o">>
FooUpper == <<"F", "O", "O">>
Bar == <<"b", "a", "r">>
NameSet == {<<>>, Foo, FooLower, FooUpper, Bar}

\* The registries the registry operations below are exercised on.
RegCaps == {"incident", "deployment"}

\* func normalize(name string) string
normalize(name) == ToLower(name)

\* registry.New: an empty map.
EmptyRegistry == [k \in {} |-> NoCtor]

\* The byte of a character, for the characters of registry keys.
Byte(ch) ==
    CASE ch = "a" -> 97 [] ch = "b" -> 98 [] ch = "c" -> 99 [] ch = "d" -> 100
      [] ch = "f" -> 102 [] ch = "k" -> 107 [] ch = "m" -> 109 [] ch = "o" -> 111
      [] ch = "r" -> 114 [] ch = "F" -> 70 [] ch = "O" -> 79
      [] OTHER -> 0

\* s < t for Go strings: byte by byte, a proper prefix first.
RECURSIVE Less(_, _)
Less(s, t) ==
    IF t = <<>> THEN FALSE
    ELSE IF s = <<>> THEN TRUE
    ELSE IF Byte(Head(s)) # Byte(Head(t)) THEN Byte(Head(s)) < Byte(Head(t))
    ELSE Less(Tail(s), Tail(t))

\* sort.Strings of the strings collected from a map's keys.
RECURSIVE SortStrings(_)
SortStrings(S) ==
    IF S = {} THEN <<>>
    ELSE LET least == CHOOSE x \in S : \A y \in S \ {x} : Less(x, y)
         IN  <<least>> \o SortStrings(S \ {least})

RECURSIVE Reverse(_)
Reverse(q) == IF q = <<>> THEN <<>> ELSE Append(Reverse(Tail(q)), Head(q))

NamesUnsorted(reg) == Reverse(SortStrings(DOMAIN reg))

\* Registry.Names: the keys of the map, sorted.
Names(reg) == SortStrings(DOMAIN reg)

RegisterResetting(reg, name, constructor) ==
    IF name = <<>>
    THEN [reg |-> reg, err |-> "name_required"]
    ELSE IF normalize(name) \in DOMAIN reg
         THEN [reg |-> reg, err |-> "duplicate"]
         ELSE [reg |-> [k \in {normalize(name)} |-> constructor], err |-> "none"]

RegisterAcceptEmpty(reg, name, constructor) ==
    IF normalize(name) \in DOMAIN reg
    THEN [reg |-> reg, err |-> "duplicate"]
    ELSE [reg |-> [k \in DOMAIN reg \cup {normalize(name)} |->
                     IF k = normalize(name) THEN constructor ELSE reg[k]],
          err |-> "none"]

RegisterOverwrite(reg, name, constructor) ==
    IF name = <<>>
    THEN [reg |-> reg, err |-> "name_required"]
    ELSE [reg |-> [k \in DOMAIN reg \cup {normalize(name)} |->
                     IF k = normalize(name) THEN constructor ELSE reg[k]],
          err |-> "none"]

\* Registry.Register: the registry after the call and the error returned.
RegisterResult(reg, name, constructor) ==
    IF name = <<>>
    THEN [reg |-> reg, err |-> "name_required"]
    ELSE IF normalize(name) \in DOMAIN reg
         THEN [reg |-> reg, err |-> "duplicate"]
         ELSE [reg |-> [k \in DOMAIN reg \cup {normalize(name)} |->
                          IF k = normalize(name) THEN constructor ELSE reg[k]],
               err |-> "none"]

GetAlwaysFound(reg, name) ==
    IF normalize(name) \in DOMAIN reg
    THEN [ctor |-> reg[normalize(name)], ok |-> TRUE]
    ELSE [ctor |-> NoCtor, ok |-> TRUE]

GetExact(reg, name) ==
    IF name \in DOMAIN reg
    THEN [ctor |-> reg[name], ok |-> TRUE]
    ELSE [ctor |-> NoCtor, ok |-> FALSE]

\* Registry.Get: the constructor and the found flag.
Get(reg, name) ==
    IF normalize(name) \in DOMAIN reg
    THEN [ctor |-> reg[normalize(name)], ok |-> TRUE]
    ELSE [ctor |-> NoCtor, ok |-> FALSE]

NoOp == [op |-> "none", cap |-> "none", name |-> <<>>, ctor |-> NoCtor,
         err |-> "none", ok |-> FALSE, names |-> <<>>]

\* <capability>.RegisterProvider(name, constructor)
Register(cap, name, constructor) ==
    /\ nops < MaxOps
    /\ LET r == RegisterResult(providers[cap], name, constructor) IN
         /\ providers' = [providers EXCEPT ![cap] = r.reg]
         /\ registered' = IF r.err = "none"
                          THEN registered \cup {<<cap, name, constructor>>}
                          ELSE registered
         /\ last' = [op |-> "Register", cap |-> cap, name |-> name,
                     ctor |-> constructor, err |-> r.err, ok |-> r.err = "none",
                     names |-> <<>>]
    /\ nops' = nops + 1
    /\ UNCHANGED <<runnerVars, resVars, serveVars, concVars>>

\* <capability>.LookupProvider(name)
Lookup(cap, name) ==
    /\ nops < MaxOps
    /\ LET g == Get(providers[cap], name) IN
         last' = [op |-> "Get", cap |-> cap, name |-> name, ctor |-> g.ctor,
                  err |-> "none", ok |-> g.ok, names |-> <<>>]
    /\ nops' = nops + 1
    /\ UNCHANGED <<providers, registered>>
    /\ UNCHANGED <<runnerVars, resVars, serveVars, concVars>>

\* <capability>.Providers()
Providers(cap) ==
    /\ nops < MaxOps
    /\ last' = [op |-> "Names", cap |-> cap, name |-> <<>>, ctor |-> NoCtor,
                err |-> "none", ok |-> TRUE, names |-> Names(providers[cap])]
    /\ nops' = nops + 1
    /\ UNCHANGED <<providers, registered>>
    /\ UNCHANGED <<runnerVars, resVars, serveVars, concVars>>

RegistryInit ==
    /\ providers = [cap \in Caps |-> EmptyRegistry]
    /\ registered = {}
    /\ last = NoOp
    /\ nops = 0

RegistryNext ==
    \/ \E cap \in RegCaps, name \in NameSet, constructor \in Ctors :
          Register(cap, name, constructor)
    \/ \E cap \in RegCaps, name \in NameSet : Lookup(cap, name)
    \/ \E cap \in RegCaps : Providers(cap)


\* =============================================================== resolution
Empty == <<>>
Blank == <<" ">>
MockEnv == <<" ", "M", "o", "c", "k">>
Mock == <<"m", "o", "c", "k">>
Bad == <<"b", "a", "d">>
Nope == <<"n", "o">>
PluginP == <<"/", "p">>
PluginQ == <<"/", "q">>

\* Raw JSON texts of a config blob: {"token":"t"}, {} and a malformed one.
JsonToken == <<"{", "t", "}">>
JsonEmpty == <<"{", "}">>
JsonBroken == <<"{", "x">>

\* json.Unmarshal of a text into map[string]any.
JsonObject(raw) ==
    CASE raw = JsonToken -> [ok |-> TRUE, val |-> "token=t"]
      [] raw = JsonEmpty -> [ok |-> TRUE, val |-> "empty"]
      [] OTHER -> [ok |-> FALSE, val |-> "nil"]

\* The registries as the linked adapters leave them at process start: every
\* capability has "mock" (constructor succeeds) and "bad" (constructor fails).
PreRegistered ==
    [cap \in Caps |-> [k \in {Mock, Bad} |-> IF k = Mock THEN "ctorOK" ELSE "ctorFail"]]

\* A ProviderConstructor applied to a config: whether it returns a provider.
Constructs(constructor, cfg) == constructor = "ctorOK"

NilProvider == [kind |-> "nil", name |-> Empty, path |-> Empty, cfg |-> "nil"]
PluginProvider(path, cfg) == [kind |-> "plugin", name |-> Empty, path |-> path, cfg |-> cfg]
InProcProvider(name, cfg) == [kind |-> "inproc", name |-> name, path |-> Empty, cfg |-> cfg]

\* func providerConfigKey(capability string) string
providerConfigKey(capability) == <<"providers", capability, "default">>

\* Values the secret store holds under a key: nothing, the JSON of a
\* providerConfigRequest, or a text that is no JSON.
Missing == [kind |-> "missing", provider |-> Empty, config |-> "nil", plugin |-> Empty]
Garbage == [kind |-> "garbage", provider |-> Empty, config |-> "nil", plugin |-> Empty]
Stored(provider, config, plugin) ==
    [kind |-> "json", provider |-> provider, config |-> config, plugin |-> plugin]

decodeConfigLenient(raw) ==
    IF TrimSpace(raw) = Empty \/ ~JsonObject(TrimSpace(raw)).ok
    THEN [cfg |-> "empty", err |-> FALSE]
    ELSE [cfg |-> JsonObject(TrimSpace(raw)).val, err |-> FALSE]

\* func decodeConfig(envVar string) (map[string]any, error), on the variable's value
decodeConfig(raw) ==
    IF TrimSpace(raw) = Empty
    THEN [cfg |-> "empty", err |-> FALSE]
    ELSE IF ~JsonObject(TrimSpace(raw)).ok
         THEN [cfg |-> "nil", err |-> TRUE]
         ELSE [cfg |-> JsonObject(TrimSpace(raw)).val, err |-> FALSE]

Selection(name, cfg, plugin, err, reads) ==
    [done |-> TRUE, name |-> name, cfg |-> cfg, plugin |-> plugin, err |-> err,
     reads |-> reads]
NotLoaded ==
    [done |-> FALSE, name |-> Empty, cfg |-> "nil", plugin |-> Empty, err |-> "none",
     reads |-> {}]

FromStoreStrict(capability) ==
    LET key == providerConfigKey(capability)
        raw == store[key]
    IN  IF raw.kind = "missing"
        THEN Selection(Empty, "nil", Empty, "store_get", {key})
        ELSE IF raw.kind = "garbage"
             THEN Selection(Empty, "nil", Empty, "stored_json", {key})
             ELSE Selection(raw.provider, raw.config, raw.plugin, "none", {key})

\* The stored selection under the capability's key, as loadProviderConfig reads
\* it: sec.Get fails on a key the store does not hold, and the failure is
\* answered with no selection and no error.
FromStore(capability) ==
    LET key == providerConfigKey(capability)
        raw == store[key]
    IN  IF raw.kind = "missing"
        THEN Selection(Empty, "nil", Empty, "none", {key})
        ELSE IF raw.kind = "garbage"
             THEN Selection(Empty, "nil", Empty, "stored_json", {key})
             ELSE Selection(raw.provider, raw.config, raw.plugin, "none", {key})

loadProviderConfigStoreFirst(secv, capability) ==
    LET name == TrimSpace(ToLower(env[capability].provider))
        pluginPath == TrimSpace(env[capability].plugin)
        d == decodeConfig(env[capability].config)
    IN  IF d.err
        THEN Selection(Empty, "nil", Empty, "config", {})
        ELSE IF secv # "nil" /\ store[providerConfigKey(capability)].kind = "json"
             THEN FromStore(capability)
             ELSE IF name # Empty \/ pluginPath # Empty
                  THEN Selection(name, d.cfg, pluginPath, "none", {})
                  ELSE Selection(Empty, "nil", Empty, "none", {})

\* func loadProviderConfig(sec, capability, envProvider, envConfig, envPlugin):
\* the selection (name, config, plugin path), the error, and the keys it read
\* from the secret store.
loadProviderConfig(secv, capability) ==
    LET name == TrimSpace(ToLower(env[capability].provider))
        pluginPath == TrimSpace(env[capability].plugin)
        d == decodeConfig(env[capability].config)
    IN  IF d.err
        THEN Selection(Empty, "nil", Empty, "config", {})
        ELSE IF name # Empty \/ pluginPath # Empty
             THEN Selection(name, d.cfg, pluginPath, "none", {})
             ELSE IF secv = "nil"
                  THEN Selection(Empty, "nil", Empty, "none", {})
                  ELSE FromStore(capability)

Built(provider, err, lookups, ctors) ==
    [provider |-> provider, err |-> err, lookups |-> lookups, ctors |-> ctors]

\* if pluginPath != "" { ... }: every capability wraps the path in a plugin
\* provider, except alert, which returns "alert plugins not yet supported".
PluginBranch(capability, l) ==
    IF capability = "alert"
    THEN Built(NilProvider, "alert_plugins_unsupported", {}, 0)
    ELSE Built(PluginProvider(l.plugin, l.cfg), "none", {}, 0)

\* new<Capability>HandlerFromEnv(sec), given what loadProviderConfig returned:
\* the handler's provider, the error, the names looked up in the registry and
\* the number of constructor runs.
HandlerFromSelection(capability, l) ==
    IF l.err # "none" \/ (l.name = Empty /\ l.plugin = Empty)
    THEN Built(NilProvider, l.err, {}, 0)
    ELSE IF l.plugin # Empty
         THEN PluginBranch(capability, l)
         ELSE LET g == Get(providers[capability], l.name) IN
              IF ~g.ok
              THEN Built(NilProvider, "not_registered", {l.name}, 0)
              ELSE IF ~Constructs(g.ctor, l.cfg)
                   THEN Built(NilProvider, "constructor", {l.name}, 1)
                   ELSE Built(InProcProvider(l.name, l.cfg), "none", {l.name}, 1)

NoTrace == [reads |-> {}, lookups |-> {}, ctors |-> 0]

\* if err != nil { return nil, err } after each handler, except deployment,
\* whose error is logged and whose handler is left empty.
AbortsStartup(capability, err) == err # "none" /\ capability # "deployment"

\* One step of NewServerFromEnv: build the handler of the next capability.
BuildHandler ==
    /\ server = "building"
    /\ step <= Len(ServerCaps)
    /\ LET capability == ServerCaps[step]
           l == loadProviderConfig(sec, capability)
           h == HandlerFromSelection(capability, l)
       IN  /\ loaded' = [loaded EXCEPT ![capability] = l]
           /\ trace' = [trace EXCEPT ![capability] =
                          [reads |-> l.reads, lookups |-> h.lookups, ctors |-> h.ctors]]
           /\ handlers' = [handlers EXCEPT ![capability] = h.provider]
           /\ IF AbortsStartup(capability, h.err)
              THEN /\ server' = "aborted"
                   /\ step' = step
              ELSE /\ server' = IF step = Len(ServerCaps) THEN "built" ELSE "building"
                   /\ step' = step + 1
    /\ UNCHANGED <<env, sec, store>>
    /\ UNCHANGED <<runnerVars, regVars, serveVars, concVars>>

EnvOf(provider, config, plugin) ==
    [provider |-> provider, config |-> config, plugin |-> plugin]
NoEnv == EnvOf(Empty, Empty, Empty)

\* Environments of the capability under test, and of a second capability.
EnvChoicesA ==
    {EnvOf(p, c, g) : p \in {Empty, Blank, MockEnv, Nope, Bad},
                      c \in {Empty, Blank, JsonToken, JsonBroken},
                      g \in {Empty, PluginP}}
EnvChoicesB == {EnvOf(MockEnv, JsonToken, Empty), EnvOf(Empty, JsonEmpty, PluginP)}
StoreChoices ==
    {Missing, Garbage, Stored(Mock, "token=t", Empty), Stored(Mock, "empty", PluginQ)}

\* The process environment and the secret store at startup: two distinct
\* capabilities carry settings, the rest carry none.
ResolveInit ==
    /\ sec \in {"nil", "store"}
    /\ \E a \in Caps : \E b \in Caps \ {a} : \E ea \in EnvChoicesA : \E eb \in EnvChoicesB :
       \E v \in (IF sec = "nil" THEN {Missing} ELSE StoreChoices) :
         /\ env = [c \in Caps |-> IF c = a THEN ea ELSE IF c = b THEN eb ELSE NoEnv]
         /\ store = [k \in {providerConfigKey(c) : c \in Caps} |->
                       IF k = providerConfigKey(a) THEN v ELSE Missing]
    /\ step = 1
    /\ server = "building"
    /\ handlers = [c \in Caps |-> NilProvider]
    /\ loaded = [c \in Caps |-> NotLoaded]
    /\ trace = [c \in Caps |-> NoTrace]

\* Nothing resolved: the resolution variables of the other specifications.
ResolveIdle ==
    /\ env = [c \in Caps |-> NoEnv]
    /\ sec = "nil"
    /\ store = [k \in {providerConfigKey(c) : c \in Caps} |-> Missing]
    /\ step = 1
    /\ server = "building"
    /\ handlers = [c \in Caps |-> NilProvider]
    /\ loaded = [c \in Caps |-> NotLoaded]
    /\ trace = [c \in Caps |-> NoTrace]

\* ================================================================= dispatch
\* --- strings of package strings, on sequences of characters
HasPrefix(s, prefix) == Len(s) >= Len(prefix) /\ SubSeq(s, 1, Len(prefix)) = prefix

HasSuffix(s, suffix) ==
    Len(s) >= Len(suffix) /\ SubSeq(s, Len(s) - Len(suffix) + 1, Len(s)) = suffix

TrimSuffix(s, suffix) ==
    IF HasSuffix(s, suffix) THEN SubSeq(s, 1, Len(s) - Len(suffix)) ELSE s

RECURSIVE TrimLeftCut(_, _)
TrimLeftCut(s, ch) ==
    IF s # <<>> /\ Head(s) = ch THEN TrimLeftCut(Tail(s), ch) ELSE s

RECURSIVE TrimRightCut(_, _)
TrimRightCut(s, ch) ==
    IF s # <<>> /\ s[Len(s)] = ch THEN TrimRightCut(SubSeq(s, 1, Len(s) - 1), ch) ELSE s

\* strings.Trim(s, cutset), for a cutset of one character
Trim(s, ch) == TrimRightCut(TrimLeftCut(s, ch), ch)

RECURSIVE SplitFrom(_, _, _)
SplitFrom(s, sep, cur) ==
    IF s = <<>>
    THEN <<cur>>
    ELSE IF Head(s) = sep
         THEN <<cur>> \o SplitFrom(Tail(s), sep, <<>>)
         ELSE SplitFrom(Tail(s), sep, Append(cur, Head(s)))

\* strings.Split(s, sep), for a separator of one character
Split(s, sep) == SplitFrom(s, sep, <<>>)

\* --- paths
Slash == <<"/">>
RootPath == Slash
HealthPath == <<"/", "h", "e", "a", "l", "t", "h">>
ProvidersPrefix == <<"/", "p", "r", "o", "v", "i", "d", "e", "r", "s", "/">>
IncidentsPath == <<"/", "i", "n", "c", "i", "d", "e", "n", "t", "s">>
AlertsPath == <<"/", "a", "l", "e", "r", "t", "s">>
LogsPath == <<"/", "l", "o", "g", "s">>
MetricsPath == <<"/", "m", "e", "t", "r", "i", "c", "s">>
TicketsPath == <<"/", "t", "i", "c", "k", "e", "t", "s">>
MessagesSendPath == <<"/", "m", "e", "s", "s", "a", "g", "e", "s", "/", "s", "e", "n", "d">>
ServicesPath == <<"/", "s", "e", "r", "v", "i", "c", "e", "s">>
DeploymentsPath == <<"/", "d", "e", "p", "l", "o", "y", "m", "e", "n", "t", "s">>
QuerySeg == <<"q", "u", "e", "r", "y">>
TimelineSeg == <<"t", "i", "m", "e", "l", "i", "n", "e">>
IdSeg == <<"7">>
LogsQueryPath == LogsPath \o Slash \o QuerySeg
MetricsQueryPath == MetricsPath \o Slash \o QuerySeg
ServicesQueryPath == ServicesPath \o Slash \o QuerySeg

\* path := strings.TrimSuffix(r.URL.Path, "/")
\* segments := strings.Split(strings.Trim(path, "/"), "/")
Segments(path) == Split(Trim(TrimSuffix(path, Slash), "/"), "/")

\* --- requests
Methods == {"GET", "POST", "PATCH", "OPTIONS"}

\* Request bodies: none, {}, an object with a field the payload type does not
\* have, a text that is no JSON, and {} followed by more text.
BodyNone == <<>>
BodyObject == <<"{", "}">>
BodyUnknown == <<"{", "z", "}">>
BodyBroken == <<"{", "x">>
BodyTrailing == <<"{", "}", "x">>
Bodies == {BodyNone, BodyObject, BodyUnknown, BodyBroken, BodyTrailing}

BearerPrefix == <<"B", "e", "a", "r", "e", "r", " ">>
Token == <<"t">>
AuthzNone == <<>>
AuthzGood == BearerPrefix \o <<" ">> \o Token

Paths ==
    {RootPath, HealthPath, <<"/", "x">>, ProvidersPrefix \o <<"l", "o", "g">>,
     IncidentsPath, IncidentsPath \o Slash, IncidentsPath \o <<"x">>,
     IncidentsPath \o Slash \o QuerySeg, IncidentsPath \o Slash \o IdSeg,
     IncidentsPath \o Slash \o IdSeg \o Slash \o TimelineSeg,
     AlertsPath, AlertsPath \o Slash \o QuerySeg, AlertsPath \o Slash \o IdSeg,
     LogsPath, LogsQueryPath, MetricsQueryPath,
     TicketsPath, TicketsPath \o Slash \o QuerySeg, TicketsPath \o Slash \o IdSeg,
     MessagesSendPath, ServicesPath, ServicesQueryPath,
     DeploymentsPath, DeploymentsPath \o Slash \o QuerySeg,
     DeploymentsPath \o Slash \o IdSeg}

Request(method, path, body, authz) ==
    [method |-> method, path |-> path, body |-> body, authz |-> authz]

\* --- texts: a message, a code or an action is a sequence of pieces, the empty
\* text is <<>>
\* --- errors: an error is its chain, outermost first; nil is the empty chain.
NoErr == <<>>
\* orcherr.OpsOrchError{Code, Message} held by value
Value(code, msg) == [kind |-> "value", code |-> code, msg |-> msg]
\* *orcherr.OpsOrchError
Pointer(code, msg) == [kind |-> "pointer", code |-> code, msg |-> msg]
\* errors.New / fmt.Errorf: msg is the whole text of Error()
Plain(msg) == [kind |-> "plain", code |-> <<>>, msg |-> msg]

\* func (e OpsOrchError) Error() string, and Error() of an untyped error
RECURSIVE ErrorText(_)
ErrorText(err) ==
    IF err = <<>>
    THEN <<>>
    ELSE IF Head(err).kind = "plain"
         THEN Head(err).msg
         ELSE Head(err).code \o <<": ">> \o Head(err).msg \o
              (IF Tail(err) = <<>> THEN <<>> ELSE <<": ">> \o ErrorText(Tail(err)))

\* The first layer of the chain of the given kind, 0 when there is none.
FirstOfKind(err, kind) ==
    LET I == {i \in 1..Len(err) : err[i].kind = kind}
    IN  IF I = {} THEN 0 ELSE CHOOSE i \in I : \A j \in I : i <= j

Typed(layer) == [found |-> TRUE, code |-> layer.code, msg |-> layer.msg]
NotTyped == [found |-> FALSE, code |-> <<>>, msg |-> <<>>]

asOpsOrchErrorValueOnly(err) ==
    IF FirstOfKind(err, "value") # 0
    THEN Typed(err[FirstOfKind(err, "value")])
    ELSE NotTyped

\* func asOpsOrchError(err error) *orcherr.OpsOrchError: errors.As for the
\* value type over the whole chain, then errors.As for the pointer type.
asOpsOrchError(err) ==
    IF FirstOfKind(err, "value") # 0
    THEN Typed(err[FirstOfKind(err, "value")])
    ELSE IF FirstOfKind(err, "pointer") # 0
         THEN Typed(err[FirstOfKind(err, "pointer")])
         ELSE NotTyped

\* --- responses
NoBody == [kind |-> "none", code |-> <<>>, message |-> <<>>, payload |-> ""]
\* The JSON object {"code": ..., "message": ...}
ErrorBody(code, message) ==
    [kind |-> "error", code |-> code, message |-> message, payload |-> ""]
JsonBody(payload) ==
    [kind |-> "json", code |-> <<>>, message |-> <<>>, payload |-> payload]
TextBody(payload) ==
    [kind |-> "text", code |-> <<>>, message |-> <<>>, payload |-> payload]
Response(status, body) == [status |-> status, body |-> body]
\* No response written: the initial value, and a handler that panicked.
NoResponse == Response(0, NoBody)

\* func writeJSON(w, status, payload), on the encoded payload
writeJSON(status, payload) == Response(status, JsonBody(payload))

\* func writeError(w, status, err orcherr.OpsOrchError)
writeError(status, code, message) == Response(status, ErrorBody(code, message))

\* func writeProviderError(w, err)
writeProviderError(err) ==
    LET oe == asOpsOrchError(err)
    IN  IF oe.found
        THEN writeError(IF oe.code = <<"not_found">> THEN 404
                        ELSE IF oe.code = <<"bad_request">> THEN 400 ELSE 502,
                        oe.code, oe.msg)
        ELSE writeError(502, <<"provider_error">>, ErrorText(err))

\* --- JSON
decodeJSONAllowUnknown(body) ==
    IF body \in {BodyObject, BodyTrailing, BodyUnknown}
    THEN [ok |-> TRUE, msg |-> <<>>]
    ELSE IF body = BodyNone
         THEN [ok |-> FALSE, msg |-> <<"EOF">>]
         ELSE [ok |-> FALSE, msg |-> <<"invalid character 'x'">>]

\* func decodeJSON(r, out): Decoder.Decode of the first JSON value of the body
\* with DisallowUnknownFields; text after that value is not read.
decodeJSON(body) ==
    IF body \in {BodyObject, BodyTrailing}
    THEN [ok |-> TRUE, msg |-> <<>>]
    ELSE IF body = BodyNone
         THEN [ok |-> FALSE, msg |-> <<"EOF">>]
         ELSE IF body = BodyUnknown
              THEN [ok |-> FALSE, msg |-> <<"json: unknown field \"z\"">>]
              ELSE [ok |-> FALSE, msg |-> <<"invalid character 'x'">>]

\* Go values of a result type: a slice ("list": nil, empty or holding p1), a
\* struct ("item": zero or p1); an operation with no result has "none".
Zero(shape) == IF shape = "list" THEN "nil" ELSE IF shape = "item" THEN "zero" ELSE "none"
GoValues(shape) ==
    IF shape = "list" THEN {"nil", "empty", "p1"}
    ELSE IF shape = "item" THEN {"zero", "p1"} ELSE {"none"}

\* JSON texts a plugin sends as result; "" is an absent result field.
ResultTexts == {"", "null", "[]", "[{p1}]", "{p1}", "{p1,z}", "\"x\""}

\* json.Unmarshal(raw, out) into a value of the shape that holds cur: null
\* leaves it as it is, fields the type does not have are dropped.
Unmarshal(raw, shape, cur) ==
    IF raw = "null"
    THEN [ok |-> TRUE, val |-> cur]
    ELSE IF shape = "list" /\ raw = "[]" THEN [ok |-> TRUE, val |-> "empty"]
    ELSE IF shape = "list" /\ raw = "[{p1}]" THEN [ok |-> TRUE, val |-> "p1"]
    ELSE IF shape = "item" /\ raw \in {"{p1}", "{p1,z}"} THEN [ok |-> TRUE, val |-> "p1"]
    ELSE [ok |-> FALSE, val |-> cur]

\* json.Encoder.Encode of a result value
Marshal(shape, val) ==
    IF shape = "list"
    THEN (IF val = "nil" THEN "null" ELSE IF val = "empty" THEN "[]" ELSE "[{p1}]")
    ELSE IF shape = "item"
         THEN (IF val = "zero" THEN "{zero}" ELSE "{p1}")
         ELSE "null"

\* --- the plugin's response, and call's reading of it
\* rpcResponse.Error: nil, or an rpcError with its code and message
NoRpcError == [present |-> FALSE, code |-> <<>>, message |-> <<>>]
RpcError(code, message) == [present |-> TRUE, code |-> code, message |-> message]
\* A decoded rpcResponse; a response text that does not decode; no response.
Envelope(error, text) == [kind |-> "envelope", error |-> error, result |-> text]
Garbled == [kind |-> "garbled", error |-> NoRpcError, result |-> ""]
\* The JSON object {"error": "<message>"}: the error is a string, not an object.
StringError(message) ==
    [kind |-> "string_error", error |-> RpcError(<<>>, message), result |-> ""]
NoReply == [kind |-> "none", error |-> NoRpcError, result |-> ""]

ReadResponseUntyped(reply, hasOut, shape) ==
    IF reply.error.present
    THEN [err |-> <<Plain(reply.error.message)>>, out |-> Zero(shape)]
    ELSE IF hasOut /\ reply.result # ""
         THEN LET u == Unmarshal(reply.result, shape, Zero(shape))
              IN  IF u.ok
                  THEN [err |-> NoErr, out |-> u.val]
                  ELSE [err |-> <<Plain(<<"json: cannot unmarshal">>)>>, out |-> u.val]
         ELSE [err |-> NoErr, out |-> Zero(shape)]

\* fmt.Errorf(resp.Error.Message): the message is the format, with no
\* operands, so a percent sign ending it is printed as %!(NOVERB).
Errorf(format) ==
    IF format # <<>> /\ format[Len(format)] = "%"
    THEN format \o <<"!(NOVERB)">>
    ELSE format

\* call after r.dec.Decode(&resp): if resp.Error != nil { ... }, then
\* if out != nil && resp.Result != nil { json.Unmarshal(resp.Result, out) }.
\* The caller's output starts at the zero value of its type.
ReadResponse(reply, hasOut, shape) ==
    IF reply.error.present
    THEN IF reply.error.code # <<>>
         THEN [err |-> <<Value(reply.error.code, reply.error.message)>>,
               out |-> Zero(shape)]
         ELSE [err |-> <<Plain(Errorf(reply.error.message))>>, out |-> Zero(shape)]
    ELSE IF hasOut /\ reply.result # ""
         THEN LET u == Unmarshal(reply.result, shape, Zero(shape))
              IN  IF u.ok
                  THEN [err |-> NoErr, out |-> u.val]
                  ELSE [err |-> <<Plain(<<"json: cannot unmarshal">>)>>, out |-> u.val]
         ELSE [err |-> NoErr, out |-> Zero(shape)]

\* r.dec.Decode(&resp) on an object whose "error" is a JSON string: the field
\* is a *rpcError, so Decode returns an UnmarshalTypeError; the value has been
\* consumed and the decoder stays usable.
DecodeStringError(reply) ==
    <<Plain(<<"json: cannot unmarshal string into Go struct field ",
              "rpcResponse.error of type api.rpcError">>)>>

\* What a provider method call returned and did: its error and value, the
\* request envelopes it wrote, the response envelope it decoded, and the
\* plugin handle it leaves.
Returned(err, val, encoded, reply, cmdv, procv, decErrv, startsv) ==
    [err |-> err, val |-> val, envelopes |-> encoded, reply |-> reply,
     cmd |-> cmdv, proc |-> procv, decErr |-> decErrv, starts |-> startsv,
     panic |-> FALSE]

\* What the provider does when its method is invoked: an in-process provider
\* returns (val, err); a plugin's subprocess starts or not (spawns) and
\* answers with reply.
Answer(err, val, spawns, reply) ==
    [err |-> err, val |-> val, spawns |-> spawns, reply |-> reply]

\* func (r *pluginRunner) call(ctx, method, payload, out) by one caller, from
\* the handle's state (cmd, proc, decErr): start when r.cmd == nil, one Encode,
\* one Decode, then the reading of the response.
call(a, hasOut, shape) ==
    IF NeedStart /\ ~a.spawns
    THEN Returned(<<Plain(<<"fork/exec">>)>>, Zero(shape), 0, NoReply,
                  cmd, proc, decErr, starts)
    ELSE LET procv == IF NeedStart THEN "alive" ELSE proc
             startsv == IF NeedStart THEN starts + 1 ELSE starts
             stuck == IF NeedStart THEN FALSE ELSE decErr
         IN  IF procv # "alive"
             THEN Returned(<<Plain(<<"broken pipe">>)>>, Zero(shape), 0, NoReply,
                           "set", procv, stuck, startsv)
             ELSE IF ~stuck /\ a.reply.kind = "string_error"
                  THEN Returned(DecodeStringError(a.reply), Zero(shape),
                                Len(EncodeReq(<<>>, 1)), a.reply,
                                "set", procv, stuck, startsv)
             ELSE IF stuck \/ a.reply.kind # "envelope"
                  THEN Returned(<<Plain(<<"invalid character">>)>>, Zero(shape),
                                Len(EncodeReq(<<>>, 1)), NoReply,
                                "set", procv, TRUE, startsv)
                  ELSE LET k == ReadResponse(a.reply, hasOut, shape)
                       IN  Returned(k.err, k.out, Len(EncodeReq(<<>>, 1)), a.reply,
                                    "set", procv, stuck, startsv)

\* --- provider methods
\* An operation of a capability as its handler forwards it: the provider
\* method, the operation's name, whether the body is decoded first, the shape
\* of the result, the status of success and the audit entries then logged.
Operation(capability, method, name, shape, status, entries) ==
    [capability |-> capability, method |-> method, name |-> name,
     shape |-> shape, status |-> status, entries |-> entries]
NoOperation == Operation("", "", <<>>, "none", 0, <<>>)

PluginMethodStale(a, op) ==
    LET k == call(a, op.shape # "none", op.shape)
    IN  [k EXCEPT !.val = Zero(op.shape)]

\* A method of a plugin provider:
\*   var res T; return res, p.runner.call(ctx, "<capability>.<op>", payload, &res)
\* The gc compiler orders the call before the read of res.
PluginMethod(a, op) == call(a, op.shape # "none", op.shape)

\* A method of an in-process provider.
InProcMethod(a, op) ==
    Returned(a.err, a.val, 0, NoReply, cmd, proc, decErr, starts)

\* s.<capability>.provider.<Method>(...): a call on a nil interface panics.
Invoke(provider, a, op) ==
    IF provider.kind = "plugin"
    THEN PluginMethod(a, op)
    ELSE IF provider.kind = "inproc"
         THEN InProcMethod(a, op)
         ELSE [Returned(NoErr, Zero(op.shape), 0, NoReply, cmd, proc, decErr, starts)
                 EXCEPT !.panic = TRUE]

\* --- handlers
\* What a handler does with a request before any provider call: it declines
\* (returns false), writes a response, or forwards an operation.
Declined == [kind |-> "declined", resp |-> NoResponse, op |-> NoOperation]
Written(response) == [kind |-> "written", resp |-> response, op |-> NoOperation]
Forward(op) == [kind |-> "forward", resp |-> NoResponse, op |-> op]

\* func logAudit(r, action) and func logMutatingAction(r, action, targetType,
\* targetID): the audit_log line each prints.
logAudit(action) == [via |-> "logAudit", action |-> action]
logMutatingAction(action) == [via |-> "logMutatingAction", action |-> action]

providerMissingNever(provider) == FALSE

\* if s.<capability>.provider == nil
providerMissing(provider) == provider = NilProvider

\* writeError(w, http.StatusNotImplemented, ...{Code: "<capability>_provider_missing", ...})
NotImplemented(code, message) == Written(writeError(501, code, message))

\* if err := decodeJSON(r, &input); err != nil { writeError(400, bad_request, err.Error()) }
DecodeThen(r, op) ==
    IF ~decodeJSON(r.body).ok
    THEN Written(writeError(400, <<"bad_request">>, decodeJSON(r.body).msg))
    ELSE Forward(op)

handleIncident(s, r) ==
    IF ~HasPrefix(r.path, IncidentsPath)
    THEN Declined
    ELSE IF providerMissing(s["incident"])
    THEN NotImplemented(<<"incident", "_provider_missing">>,
                        <<"incident", " provider not configured">>)
    ELSE LET segments == Segments(r.path) IN
         IF Len(segments) = 2 /\ segments[2] = QuerySeg /\ r.method = "POST"
         THEN DecodeThen(r, Operation("incident", "Query", <<"query">>, "list", 200, <<>>))
         ELSE IF Len(segments) = 1 /\ r.method = "GET"
         THEN Forward(Operation("incident", "List", <<"list">>, "list", 200, <<>>))
         ELSE IF Len(segments) = 1 /\ r.method = "POST"
         THEN DecodeThen(r, Operation("incident", "Create", <<"create">>, "item", 201,
                                      <<logMutatingAction(<<"create_incident">>)>>))
         ELSE IF Len(segments) = 2 /\ r.method = "GET"
         THEN Forward(Operation("incident", "Get", <<"get">>, "item", 200, <<>>))
         ELSE IF Len(segments) = 2 /\ r.method = "PATCH"
         THEN DecodeThen(r, Operation("incident", "Update", <<"update">>, "item", 200,
                                      <<logMutatingAction(<<"update_incident">>)>>))
         ELSE IF Len(segments) = 3 /\ segments[3] = TimelineSeg /\ r.method = "GET"
         THEN Forward(Operation("incident", "GetTimeline", <<"timeline", ".", "get">>,
                                "list", 200, <<>>))
         ELSE IF Len(segments) = 3 /\ segments[3] = TimelineSeg /\ r.method = "POST"
         THEN DecodeThen(r, Operation("incident", "AppendTimeline",
                                      <<"timeline", ".", "append">>, "none", 201,
                                      <<logMutatingAction(<<"append_incident_timeline">>)>>))
         ELSE Declined

handleAlert(s, r) ==
    IF ~HasPrefix(r.path, AlertsPath)
    THEN Declined
    ELSE IF providerMissing(s["alert"])
    THEN NotImplemented(<<"alert", "_provider_missing">>,
                        <<"alert", " provider not configured">>)
    ELSE LET segments == Segments(r.path) IN
         IF Len(segments) = 2 /\ segments[2] = QuerySeg /\ r.method = "POST"
         THEN DecodeThen(r, Operation("alert", "Query", <<"query">>, "list", 200,
                                      <<logAudit(<<"alert", ".", "query">>)>>))
         ELSE IF Len(segments) = 2 /\ r.method = "GET"
         THEN Forward(Operation("alert", "Get", <<"get">>, "item", 200,
                                <<logAudit(<<"alert", ".", "get">>)>>))
         ELSE Declined

handleLogMethodFirst(s, r) ==
    IF r.path # LogsQueryPath
    THEN Declined
    ELSE IF r.method # "POST"
    THEN Declined
    ELSE IF providerMissing(s["log"])
    THEN NotImplemented(<<"log", "_provider_missing">>,
                        <<"log", " provider not configured">>)
    ELSE DecodeThen(r, Operation("log", "Query", <<"query">>, "list", 200,
                                 <<logAudit(<<"log", ".", "query">>)>>))

handleLog(s, r) ==
    IF r.path # LogsQueryPath
    THEN Declined
    ELSE IF providerMissing(s["log"])
    THEN NotImplemented(<<"log", "_provider_missing">>,
                        <<"log", " provider not configured">>)
    ELSE IF r.method # "POST"
    THEN Declined
    ELSE DecodeThen(r, Operation("log", "Query", <<"query">>, "list", 200,
                                 <<logAudit(<<"log", ".", "query">>)>>))

handleMetric(s, r) ==
    IF r.path # MetricsQueryPath
    THEN Declined
    ELSE IF providerMissing(s["metric"])
    THEN NotImplemented(<<"metric", "_provider_missing">>,
                        <<"metric", " provider not configured">>)
    ELSE IF r.method # "POST"
    THEN Declined
    ELSE DecodeThen(r, Operation("metric", "Query", <<"query">>, "list", 200, <<>>))

handleTicket(s, r) ==
    IF ~HasPrefix(r.path, TicketsPath)
    THEN Declined
    ELSE IF providerMissing(s["ticket"])
    THEN NotImplemented(<<"ticket", "_provider_missing">>,
                        <<"ticket", " provider not configured">>)
    ELSE LET segments == Segments(r.path) IN
         IF Len(segments) = 2 /\ segments[2] = QuerySeg /\ r.method = "POST"
         THEN DecodeThen(r, Operation("ticket", "Query", <<"query">>, "list", 200, <<>>))
         ELSE IF Len(segments) = 1 /\ r.method = "POST"
         THEN DecodeThen(r, Operation("ticket", "Create", <<"create">>, "item", 201,
                                      <<logMutatingAction(<<"create_ticket">>)>>))
         ELSE IF Len(segments) = 2 /\ r.method = "GET"
         THEN Forward(Operation("ticket", "Get", <<"get">>, "item", 200, <<>>))
         ELSE IF Len(segments) = 2 /\ r.method = "PATCH"
         THEN DecodeThen(r, Operation("ticket", "Update", <<"update">>, "item", 200,
                                      <<logMutatingAction(<<"update_ticket">>)>>))
         ELSE Declined

handleMessaging(s, r) ==
    IF r.path # MessagesSendPath
    THEN Declined
    ELSE IF providerMissing(s["messaging"])
    THEN NotImplemented(<<"messaging", "_provider_missing">>,
                        <<"messaging", " provider not configured">>)
    ELSE IF r.method # "POST"
    THEN Declined
    ELSE DecodeThen(r, Operation("messaging", "Send", <<"send">>, "item", 200,
                                 <<logAudit(<<"message", ".", "sent">>)>>))

handleService(s, r) ==
    IF r.path # ServicesPath /\ r.path # ServicesQueryPath
    THEN Declined
    ELSE IF providerMissing(s["service"])
    THEN NotImplemented(<<"service", "_provider_missing">>,
                        <<"service", " provider not configured">>)
    ELSE IF r.path = ServicesPath /\ r.method = "GET"
    THEN Forward(Operation("service", "Query", <<"query">>, "list", 200, <<>>))
    ELSE IF r.path = ServicesQueryPath /\ r.method = "POST"
    THEN DecodeThen(r, Operation("service", "Query", <<"query">>, "list", 200, <<>>))
    ELSE Declined

\* handleDeployment, through DeploymentHandler.handleDeploymentRequest
handleDeployment(s, r) ==
    IF ~HasPrefix(r.path, DeploymentsPath)
    THEN Declined
    ELSE IF providerMissing(s["deployment"])
    THEN NotImplemented(<<"deployment", "_provider_missing">>,
                        <<"deployment", " provider not configured">>)
    ELSE LET segments == Segments(r.path) IN
         IF Len(segments) = 2 /\ segments[2] = QuerySeg /\ r.method = "POST"
         THEN DecodeThen(r, Operation("deployment", "Query", <<"query">>, "list", 200,
                                      <<logAudit(<<"deployment", ".", "query">>)>>))
         ELSE IF Len(segments) = 2 /\ r.method = "GET"
         THEN Forward(Operation("deployment", "Get", <<"get">>, "item", 200,
                                <<logAudit(<<"deployment", ".", "get">>)>>))
         ELSE Declined

\* The guards of handleProviders and handleProviderConfig: both decline a
\* request whose path does not start with /providers/.
DeclinesProviders(r) == ~HasPrefix(r.path, ProvidersPrefix) \/ r.method # "GET"
DeclinesProviderConfig(r) == ~HasPrefix(r.path, ProvidersPrefix) \/ r.method # "POST"

\* func (s *Server) authorize(r) bool
authorize(token, r) ==
    IF token = <<>>
    THEN TRUE
    ELSE /\ HasPrefix(r.authz, BearerPrefix)
         /\ TrimSpace(SubSeq(r.authz, Len(BearerPrefix) + 1, Len(r.authz))) = token

\* The first handler of the switch that does not decline; http.NotFound when
\* every handler declines.
FirstHandled(tried) ==
    LET I == {i \in 1..Len(tried) : tried[i].kind # "declined"}
    IN  IF I = {}
        THEN Written(Response(404, TextBody("404 page not found")))
        ELSE tried[CHOOSE i \in I : \A j \in I : i <= j]

\* func (s *Server) ServeHTTP(w, r), for a request that handleProviders and
\* handleProviderConfig decline, up to the provider call.
ServeHTTP(s, token, r) ==
    IF r.method = "OPTIONS"
    THEN Written(Response(200, NoBody))
    ELSE IF ~authorize(token, r)
    THEN Written(Response(401, TextBody("unauthorized")))
    ELSE IF r.path \in {RootPath, HealthPath} /\ r.method = "GET"
    THEN Written(writeJSON(200, "{status:ok}"))
    ELSE FirstHandled(<<handleIncident(s, r), handleAlert(s, r), handleLog(s, r),
                        handleMetric(s, r), handleTicket(s, r), handleMessaging(s, r),
                        handleService(s, r), handleDeployment(s, r)>>)

\* The handler after the provider method returned: writeProviderError on an
\* error; otherwise the audit entries and writeJSON of the result.
Completed(op, ret) ==
    IF ret.panic
    THEN [resp |-> NoResponse, entries |-> <<>>]
    ELSE IF ret.err # NoErr
         THEN [resp |-> writeProviderError(ret.err), entries |-> <<>>]
         ELSE [resp |-> writeJSON(op.status,
                                  IF op.shape = "none" THEN "{status:ok}"
                                  ELSE Marshal(op.shape, ret.val)),
               entries |-> op.entries]

Invocation(op) == [capability |-> op.capability, method |-> op.method]

InvocationsRetried(op, ret) ==
    IF ret.err # NoErr THEN <<Invocation(op), Invocation(op)>> ELSE <<Invocation(op)>>

\* The provider calls of one forwarded operation: every case of every handler
\* calls its provider method once and returns after writing the response.
Invocations(op, ret) == <<Invocation(op)>>

\* --- what providers and plugins may answer
Codes == {<<"not_found">>, <<"bad_request">>, <<"rate_limited">>, <<>>}
Messages == {<<"boom">>, <<>>}

\* Errors a provider method returns: untyped, typed by value or by pointer,
\* a typed error wrapped with %w, a typed error with a cause, and a typed
\* error inside another.
ProviderErrors ==
    {<<Plain(m)>> : m \in Messages}
    \cup {<<Value(c, m)>> : c \in Codes, m \in Messages}
    \cup {<<Pointer(c, m)>> : c \in Codes, m \in Messages}
    \cup {<<Plain(<<"query: ">> \o ErrorText(<<Value(c, <<"boom">>)>>)), Value(c, <<"boom">>)>> :
            c \in Codes}
    \cup {<<Plain(<<"query: ">> \o ErrorText(<<Pointer(c, <<"boom">>)>>)), Pointer(c, <<"boom">>)>> :
            c \in Codes}
    \cup {<<Value(c, <<"boom">>), Plain(<<"timeout">>)>> : c \in Codes}
    \cup {<<Pointer(<<"not_found">>, <<"boom">>), Value(<<"rate_limited">>, <<"inner">>)>>,
          <<Value(<<"not_found">>, <<"boom">>), Pointer(<<"bad_request">>, <<"inner">>)>>}

\* Responses a plugin writes: an error object (any code, any message) with or
\* without a result, no error with any result text or none, or garbage.
Replies ==
    {Envelope(RpcError(c, m), t) : c \in Codes, m \in Messages, t \in {"", "[{p1}]"}}
    \cup {Envelope(RpcError(<<>>, <<"100", "%">>), "")}
    \cup {Envelope(NoRpcError, t) : t \in ResultTexts}
    \cup {Garbled}

\* plugins/incidentmock and plugins/logmock, as far as errors go: writeErr
\* for an id the plugin does not hold and for a method it does not know,
\* writeOK otherwise. Both write rpcResponse{Error string}.
MockKnows == [incident |-> {"Query", "List", "Get", "Create", "Update", "GetTimeline",
                            "AppendTimeline"},
              log |-> {"Query"}]
MockPlugin(mock, op, held) ==
    IF op.method \notin MockKnows[mock] \/ op.capability # mock
    THEN StringError(<<"unknown method ", op.capability, ".">> \o op.name)
    ELSE IF op.method \in {"Get", "Update"} /\ ~held
         THEN StringError(<<"not found">>)
         ELSE Envelope(NoRpcError, IF op.shape = "list" THEN "[{p1}]" ELSE "{p1}")

\* What the bundled mock plugins answer to an operation.
MockReplies(op) == {MockPlugin(m, op, held) : m \in {"incident", "log"}, held \in BOOLEAN}

NoAnswer == Answer(NoErr, "none", TRUE, NoReply)

Answers(provider, op) ==
    IF provider.kind = "inproc"
    THEN {Answer(e, Zero(op.shape), TRUE, NoReply) : e \in ProviderErrors}
         \cup {Answer(NoErr, v, TRUE, NoReply) : v \in GoValues(op.shape)}
    ELSE IF provider.kind = "plugin"
         THEN {Answer(NoErr, Zero(op.shape), sp, rp) :
                 sp \in (IF NeedStart THEN BOOLEAN ELSE {TRUE}),
                 rp \in Replies \cup MockReplies(op)}
         ELSE {NoAnswer}

\* --- serving one request
NoRequest == Request("", <<>>, <<>>, <<>>)

\* ServeHTTP on the request at hand, whole: routing, the provider call with
\* whatever the provider answers, and the response.
Serve ==
    /\ ~served
    /\ served' = TRUE
    /\ LET g == ServeHTTP(handlers, bearer, req) IN
       IF g.kind = "forward"
       THEN \E a \in Answers(handlers[g.op.capability], g.op) :
              LET ret == Invoke(handlers[g.op.capability], a, g.op)
                  fin == Completed(g.op, ret)
              IN  /\ resp' = fin.resp
                  /\ audit' = fin.entries
                  /\ invoked' = Invocations(g.op, ret)
                  /\ envelopes' = ret.envelopes
                  /\ rpc' = ret.reply
                  /\ callErr' = ret.err
                  /\ callVal' = ret.val
                  /\ cmd' = ret.cmd
                  /\ proc' = ret.proc
                  /\ decErr' = ret.decErr
                  /\ starts' = ret.starts
       ELSE /\ resp' = g.resp
            /\ audit' = <<>>
            /\ invoked' = <<>>
            /\ envelopes' = 0
            /\ rpc' = NoReply
            /\ callErr' = NoErr
            /\ callVal' = "none"
            /\ UNCHANGED <<cmd, proc, decErr, starts>>
    /\ UNCHANGED <<bearer, req>>
    /\ UNCHANGED <<mu, procCtx, exitCause, stdin, stdout, pc, callNo, ctxDone, outcome,
                   result, atBegin, written, readLog>>
    /\ UNCHANGED <<regVars, resVars, concVars>>

\* The states a plugin handle is found in: never called, subprocess running,
\* running after a decode error, and subprocess exited.
HandleStates ==
    {[cmd |-> "nil", proc |-> "none", decErr |-> FALSE, starts |-> 0, exitCause |-> "none"],
     [cmd |-> "set", proc |-> "alive", decErr |-> FALSE, starts |-> 1, exitCause |-> "none"],
     [cmd |-> "set", proc |-> "alive", decErr |-> TRUE, starts |-> 1, exitCause |-> "none"],
     [cmd |-> "set", proc |-> "dead", decErr |-> FALSE, starts |-> 1, exitCause |-> "external"]}

ProviderOfKind(kind) ==
    IF kind = "inproc" THEN InProcProvider(Mock, "empty")
    ELSE IF kind = "plugin" THEN PluginProvider(PluginP, "empty")
    ELSE NilProvider

\* A built server with at most one capability configured (in process, or by a
\* plugin for the capabilities that take one), with or without a bearer
\* token, and one request arriving.
ServeInit ==
    /\ \E a \in Caps : \E kind \in {"nil", "inproc", "plugin"} :
         /\ kind = "plugin" => a # "alert"
         /\ kind = "nil" => a = ServerCaps[1]
         /\ handlers = [c \in Caps |-> IF c = a THEN ProviderOfKind(kind) ELSE NilProvider]
         /\ \E h \in (IF kind = "plugin" THEN HandleStates
                      ELSE {x \in HandleStates : x.cmd = "nil"}) :
              /\ cmd = h.cmd
              /\ proc = h.proc
              /\ decErr = h.decErr
              /\ starts = h.starts
              /\ exitCause = h.exitCause
    /\ \E m \in Methods : \E p \in Paths : \E b \in Bodies :
       \E auth \in {<<<<>>, AuthzNone>>, <<Token, AuthzNone>>, <<Token, AuthzGood>>} :
         /\ bearer = auth[1]
         /\ req = Request(m, p, b, auth[2])
         /\ DeclinesProviders(req) /\ DeclinesProviderConfig(req)
    /\ served = FALSE
    /\ resp = NoResponse
    /\ invoked = <<>>
    /\ audit = <<>>
    /\ envelopes = 0
    /\ rpc = NoReply
    /\ callErr = NoErr
    /\ callVal = "none"
    /\ mu = 0
    /\ procCtx = Background
    /\ stdin = <<>>
    /\ stdout = <<>>
    /\ pc = [c \in Callers |-> "idle"]
    /\ callNo = [c \in Callers |-> 0]
    /\ ctxDone = [c \in Callers |-> FALSE]
    /\ outcome = [c \in Callers |-> "none"]
    /\ result = [c \in Callers |-> NoResult]
    /\ atBegin = [c \in Callers |-> [dead |-> FALSE, cancelled |-> FALSE]]
    /\ written = <<>>
    /\ readLog = <<>>
    /\ providers = PreRegistered
    /\ registered = {<<cap, k, PreRegistered[cap][k]>> : cap \in Caps, k \in {Mock, Bad}}
    /\ last = NoOp
    /\ nops = 0
    /\ env = [c \in Caps |-> NoEnv]
    /\ sec = "nil"
    /\ store = [k \in {providerConfigKey(c) : c \in Caps} |-> Missing]
    /\ step = Len(ServerCaps) + 1
    /\ server = "built"
    /\ loaded = [c \in Caps |-> NotLoaded]
    /\ trace = [c \in Caps |-> NoTrace]

\* No request: the dispatch variables of the other specifications.
ServeIdle ==
    /\ bearer = <<>>
    /\ req = NoRequest
    /\ served = FALSE
    /\ resp = NoResponse
    /\ invoked = <<>>
    /\ audit = <<>>
    /\ envelopes = 0
    /\ rpc = NoReply
    /\ callErr = NoErr
    /\ callVal = "none"

ServeNext ==
    \/ Serve
    \/ ProcExit

\* ========================================================== reconfiguration
\* --- capability names in a path
Incident == <<"i", "n", "c", "i", "d", "e", "n", "t">>
Alert == <<"a", "l", "e", "r", "t">>
Log == <<"l", "o", "g">>
Metric == <<"m", "e", "t", "r", "i", "c">>
Ticket == <<"t", "i", "c", "k", "e", "t">>
Message == <<"m", "e", "s", "s", "a", "g", "e">>
Messaging == <<"m", "e", "s", "s", "a", "g", "i", "n", "g">>
Service == <<"s", "e", "r", "v", "i", "c", "e">>
Deployment == <<"d", "e", "p", "l", "o", "y", "m", "e", "n", "t">>
Team == <<"t", "e", "a", "m">>
Plural(word) == word \o <<"s">>

NoCapability == [capability |-> "", ok |-> FALSE]
Canonical(capability) == [capability |-> capability, ok |-> TRUE]

normalizeCapabilityExact(name) ==
    CASE name = Incident -> Canonical("incident")
      [] name = Alert -> Canonical("alert")
      [] name = Log -> Canonical("log")
      [] name = Metric -> Canonical("metric")
      [] name = Ticket -> Canonical("ticket")
      [] name = Messaging -> Canonical("messaging")
      [] name = Service -> Canonical("service")
      [] name = Deployment -> Canonical("deployment")
      [] OTHER -> NoCapability

\* func normalizeCapability(name string) (string, bool)
normalizeCapability(name) ==
    LET w == ToLower(name) IN
    CASE w \in {Incident, Plural(Incident)} -> Canonical("incident")
      [] w \in {Alert, Plural(Alert)} -> Canonical("alert")
      [] w \in {Log, Plural(Log)} -> Canonical("log")
      [] w \in {Metric, Plural(Metric)} -> Canonical("metric")
      [] w \in {Ticket, Plural(Ticket)} -> Canonical("ticket")
      [] w \in {Message, Plural(Message), Messaging} -> Canonical("messaging")
      [] w \in {Service, Plural(Service)} -> Canonical("service")
      [] w \in {Deployment, Plural(Deployment)} -> Canonical("deployment")
      [] OTHER -> NoCapability

\* strings.TrimPrefix
TrimPrefix(s, prefix) ==
    IF HasPrefix(s, prefix) THEN SubSeq(s, Len(prefix) + 1, Len(s)) ELSE s

\* --- the request payload
\* JSON texts of the config field: left out, {} and {"token":"t"}.
NoField == <<>>
\* json.Marshal of a nil map
JsonNull == <<"null">>

\* The body of a reconfiguration request: a JSON object with the fields of
\* providerConfigRequest, or one of the bodies that do not decode.
ConfigBody(provider, config, plugin) ==
    [kind |-> "json", provider |-> provider, config |-> config, plugin |-> plugin]
NotJson(kind) == [kind |-> kind, provider |-> Empty, config |-> NoField, plugin |-> Empty]

\* The text of a body that does not decode.
RawBody(body) ==
    CASE body.kind = "none" -> BodyNone
      [] body.kind = "unknown" -> BodyUnknown
      [] body.kind = "broken" -> BodyBroken
      [] OTHER -> BodyObject

\* json.Unmarshal of a config text into map[string]any: an absent field and
\* null leave the map nil.
UnmarshalConfig(raw) ==
    IF raw \in {NoField, JsonNull} THEN "nil" ELSE JsonObject(raw).val

\* json.Marshal of a map[string]any
MarshalConfig(cfg) ==
    CASE cfg = "nil" -> JsonNull
      [] cfg = "empty" -> JsonEmpty
      [] OTHER -> JsonToken

\* A decoded providerConfigRequest.
ConfigRequest(provider, cfg, plugin) ==
    [provider |-> provider, cfg |-> cfg, plugin |-> plugin]

\* decodeJSON(r, &req) for a providerConfigRequest
decodeConfigRequest(body) ==
    LET d == decodeJSON(RawBody(body)) IN
    IF body.kind # "json"
    THEN [ok |-> FALSE, msg |-> d.msg, req |-> ConfigRequest(Empty, "nil", Empty)]
    ELSE [ok |-> TRUE, msg |-> <<>>,
          req |-> ConfigRequest(body.provider, UnmarshalConfig(body.config), body.plugin)]

\* json.Marshal(req): provider and config always, plugin when it is not empty.
MarshalRequestNoPlugin(r) ==
    [provider |-> r.provider, config |-> MarshalConfig(r.cfg),
     plugin |-> [present |-> FALSE, path |-> Empty]]

MarshalRequest(r) ==
    [provider |-> r.provider, config |-> MarshalConfig(r.cfg),
     plugin |-> [present |-> r.plugin # Empty, path |-> r.plugin]]

\* The value the store holds for a text json.Marshal wrote: what
\* json.Unmarshal(raw, &stored) reads from it.
StoredText(text) ==
    Stored(text.provider, UnmarshalConfig(text.config),
           IF text.plugin.present THEN text.plugin.path ELSE Empty)

\* func (s *Server) storeProviderConfig(capability, req): s.secret.Put under
\* the capability's key; a Put that fails leaves the store as it was.
storeProviderConfig(st, capability, r, putOK) ==
    IF putOK
    THEN [store |-> [st EXCEPT ![providerConfigKey(capability)] = StoredText(MarshalRequest(r))],
          err |-> NoErr]
    ELSE [store |-> st, err |-> <<Plain(<<"put failed">>)>>]

\* --- applying a selection
Applied(hs, err) == [handlers |-> hs, err |-> err]

ApplyBeforeCheck(hs, capability, name, pluginPath, cfg) ==
    IF pluginPath # Empty
    THEN Applied([hs EXCEPT ![capability] = PluginProvider(pluginPath, cfg)], NoErr)
    ELSE LET g == Get(providers[capability], name) IN
         IF ~g.ok
         THEN Applied([hs EXCEPT ![capability] = NilProvider],
                      <<Plain(<<capability, " provider ">> \o name \o <<" not registered">>)>>)
         ELSE IF ~Constructs(g.ctor, cfg)
              THEN Applied([hs EXCEPT ![capability] = NilProvider],
                           <<Plain(<<"constructor failed">>)>>)
              ELSE Applied([hs EXCEPT ![capability] = InProcProvider(name, cfg)], NoErr)

\* func (s *Server) handle<Capability>ProviderConfig(name, pluginPath, cfg) error
handleCapabilityProviderConfig(hs, capability, name, pluginPath, cfg) ==
    IF pluginPath # Empty
    THEN Applied([hs EXCEPT ![capability] = PluginProvider(pluginPath, cfg)], NoErr)
    ELSE LET g == Get(providers[capability], name) IN
         IF ~g.ok
         THEN Applied(hs, <<Plain(<<capability, " provider ">> \o name \o <<" not registered">>)>>)
         ELSE IF ~Constructs(g.ctor, cfg)
              THEN Applied(hs, <<Plain(<<"constructor failed">>)>>)
              ELSE Applied([hs EXCEPT ![capability] = InProcProvider(name, cfg)], NoErr)

\* The cases of handleProviderConfig's switch.
Configurable == {"incident", "log", "metric", "ticket", "messaging", "service"}

\* What handleProviderConfig leaves behind: the response, the handlers, the
\* store and the audit entries.
Configured(response, hs, st, entries) ==
    [resp |-> response, handlers |-> hs, store |-> st, entries |-> entries]

\* handleProviderConfig putting the previous provider back when the store
\* refuses the selection.
handleProviderConfigRollback(hs, st, secv, r, putOK) ==
    LET n == normalizeCapability(TrimPrefix(r.path, ProvidersPrefix))
        d == decodeConfigRequest(r.body)
    IN
    IF secv = "nil"
    THEN Configured(writeError(501, <<"secret_provider_missing">>,
                               <<"secret provider not configured">>), hs, st, <<>>)
    ELSE IF ~n.ok
    THEN Configured(writeError(404, <<"not_found">>, <<"unknown capability">>), hs, st, <<>>)
    ELSE IF ~d.ok
    THEN Configured(writeError(400, <<"bad_request">>, d.msg), hs, st, <<>>)
    ELSE IF d.req.provider = Empty
    THEN Configured(writeError(400, <<"bad_request">>, <<"provider required">>), hs, st, <<>>)
    ELSE IF n.capability \notin Configurable
    THEN Configured(writeError(404, <<"not_found">>, <<"unknown capability">>), hs, st, <<>>)
    ELSE LET a == handleCapabilityProviderConfig(hs, n.capability, d.req.provider,
                                                 d.req.plugin, d.req.cfg)
         IN
         IF a.err # NoErr
         THEN Configured(writeError(400, <<"bad_request">>, ErrorText(a.err)),
                         a.handlers, st, <<>>)
         ELSE LET p == storeProviderConfig(st, n.capability, d.req, putOK) IN
              IF p.err # NoErr
              THEN Configured(writeError(502, <<"secret_store_error">>, ErrorText(p.err)),
                              hs, p.store, <<>>)
              ELSE Configured(writeJSON(200, "{status:ok}"), a.handlers, p.store,
                              <<logMutatingAction(<<"configure_provider">>)>>)

\* func (s *Server) handleProviderConfig(w, r) bool, for a POST under
\* /providers/.
handleProviderConfig(hs, st, secv, r, putOK) ==
    LET n == normalizeCapability(TrimPrefix(r.path, ProvidersPrefix))
        d == decodeConfigRequest(r.body)
    IN
    IF secv = "nil"
    THEN Configured(writeError(501, <<"secret_provider_missing">>,
                               <<"secret provider not configured">>), hs, st, <<>>)
    ELSE IF ~n.ok
    THEN Configured(writeError(404, <<"not_found">>, <<"unknown capability">>), hs, st, <<>>)
    ELSE IF ~d.ok
    THEN Configured(writeError(400, <<"bad_request">>, d.msg), hs, st, <<>>)
    ELSE IF d.req.provider = Empty
    THEN Configured(writeError(400, <<"bad_request">>, <<"provider required">>), hs, st, <<>>)
    ELSE IF n.capability \notin Configurable
    THEN Configured(writeError(404, <<"not_found">>, <<"unknown capability">>), hs, st, <<>>)
    ELSE LET a == handleCapabilityProviderConfig(hs, n.capability, d.req.provider,
                                                 d.req.plugin, d.req.cfg)
         IN
         IF a.err # NoErr
         THEN Configured(writeError(400, <<"bad_request">>, ErrorText(a.err)),
                         a.handlers, st, <<>>)
         ELSE LET p == storeProviderConfig(st, n.capability, d.req, putOK) IN
              IF p.err # NoErr
              THEN Configured(writeError(502, <<"secret_store_error">>, ErrorText(p.err)),
                              a.handlers, p.store, <<>>)
              ELSE Configured(writeJSON(200, "{status:ok}"), a.handlers, p.store,
                              <<logMutatingAction(<<"configure_provider">>)>>)

\* ServeHTTP on a reconfiguration request, whole.
Configure ==
    /\ ~served
    /\ server = "built"
    /\ served' = TRUE
    /\ \E putOK \in BOOLEAN :
         LET k == handleProviderConfig(handlers, store, sec, req, putOK) IN
           /\ resp' = k.resp
           /\ handlers' = k.handlers
           /\ store' = k.store
           /\ audit' = k.entries
    /\ UNCHANGED <<bearer, req, invoked, envelopes, rpc, callErr, callVal>>
    /\ UNCHANGED <<env, sec, step, server, loaded, trace>>
    /\ UNCHANGED <<runnerVars, regVars, concVars>>

\* The process is started again on the same secret store: NewServerFromEnv
\* begins with no handler built.
Restart ==
    /\ served
    /\ server = "built"
    /\ \A c \in Caps : ~loaded[c].done
    /\ server' = "building"
    /\ step' = 1
    /\ handlers' = [c \in Caps |-> NilProvider]
    /\ UNCHANGED <<env, sec, store, loaded, trace>>
    /\ UNCHANGED <<runnerVars, regVars, serveVars, concVars>>

\* Names a request gives as provider, config texts and plugin paths.
MockMixed == <<"M", "o", "c", "k">>
ConfigBodies ==
    {NotJson(k) : k \in {"none", "unknown", "broken"}}
    \cup {ConfigBody(p, c, g) : p \in {Empty, Mock, MockMixed, Bad, Nope},
                                c \in {NoField, JsonEmpty, JsonToken},
                                g \in {Empty, PluginP}}

ConfigPaths ==
    {ProvidersPrefix \o w :
        w \in {Incident, Alert, Log, Metric, Ticket, Message, Messaging, Service,
               Deployment, Plural(Incident), Plural(Alert), Plural(Log),
               Plural(Metric), Plural(Ticket), Plural(Message), Plural(Service),
               Plural(Deployment), <<"I", "n", "c", "i", "d", "e", "n", "t", "s">>,
               Team, <<"x">>, <<>>}}

\* A built server, with or without a secret store, one capability possibly
\* configured and stored already, and one reconfiguration request arriving.
ConfigureInit ==
    /\ sec \in {"nil", "store"}
    /\ \E a \in {"incident", "alert"} : \E old \in BOOLEAN :
         /\ ~old => a = "incident"
         /\ handlers = [c \in Caps |-> IF old /\ c = a
                                       THEN InProcProvider(Mock, "empty") ELSE NilProvider]
         /\ store = [k \in {providerConfigKey(c) : c \in Caps} |->
                       IF old /\ sec = "store" /\ k = providerConfigKey(a)
                       THEN Stored(Mock, "empty", Empty) ELSE Missing]
    /\ \E p \in ConfigPaths : \E b \in ConfigBodies :
         req = Request("POST", p, b, AuthzNone)
    /\ bearer = <<>>
    /\ served = FALSE
    /\ resp = NoResponse
    /\ invoked = <<>>
    /\ audit = <<>>
    /\ envelopes = 0
    /\ rpc = NoReply
    /\ callErr = NoErr
    /\ callVal = "none"
    /\ providers = PreRegistered
    /\ registered = {<<cap, k, PreRegistered[cap][k]>> : cap \in Caps, k \in {Mock, Bad}}
    /\ last = NoOp
    /\ nops = 0
    /\ env = [c \in Caps |-> NoEnv]
    /\ step = Len(ServerCaps) + 1
    /\ server = "built"
    /\ loaded = [c \in Caps |-> NotLoaded]
    /\ trace = [c \in Caps |-> NoTrace]

ConfigureNext == Configure \/ Restart \/ BuildHandler

\* ====================================================== concurrent registry
\* Goroutines calling one capability's registry at the same time.
NumGoroutines == 3
Goroutines == 1..NumGoroutines

\* The registry the goroutines share.
RaceCap == "incident"

RegisterCall(name, constructor) == [op |-> "Register", name |-> name, ctor |-> constructor]
GetCall(name) == [op |-> "Get", name |-> name, ctor |-> NoCtor]
NamesCall == [op |-> "Names", name |-> <<>>, ctor |-> NoCtor]

\* The calls a goroutine may make: names that fold to one key with different
\* constructors, another key, the empty name, and the two readers.
RaceCalls ==
    << RegisterCall(Foo, "ctorOK"), RegisterCall(FooUpper, "ctorFail"),
       RegisterCall(Bar, "ctorOK"), RegisterCall(<<>>, "ctorOK"),
       GetCall(FooLower), NamesCall >>

NoReturn == [done |-> FALSE, err |-> "none", ctor |-> NoCtor, ok |-> FALSE, names |-> <<>>]

CanWLockAlways == TRUE

\* sync.RWMutex.Lock returns once no goroutine holds the mutex in either mode.
CanWLock == rwmu.writer = 0 /\ rwmu.readers = {}

\* sync.RWMutex.RLock returns once no goroutine holds the mutex for writing.
CanRLock == rwmu.writer = 0

\* Registry.Register up to r.mu.Lock(): the empty name returns at once.
RegEnter(g) ==
    /\ gpc[g] = "begin"
    /\ gop[g].op = "Register"
    /\ IF gop[g].name = <<>>
       THEN /\ gpc' = [gpc EXCEPT ![g] = "done"]
            /\ gret' = [gret EXCEPT ![g] = [NoReturn EXCEPT !.done = TRUE,
                                                            !.err = "name_required"]]
       ELSE /\ gpc' = [gpc EXCEPT ![g] = "lock"]
            /\ gret' = gret
    /\ UNCHANGED <<rwmu, gop>>
    /\ UNCHANGED <<runnerVars, regVars, resVars, serveVars, handleVars, heapVars, dispVars>>

\* r.mu.Lock() in Register
RegLock(g) ==
    /\ gpc[g] = "lock"
    /\ CanWLock
    /\ rwmu' = [rwmu EXCEPT !.writer = g]
    /\ gpc' = [gpc EXCEPT ![g] = "check"]
    /\ UNCHANGED <<gop, gret>>
    /\ UNCHANGED <<runnerVars, regVars, resVars, serveVars, handleVars, heapVars, dispVars>>

\* The lookup of the key in Register; a key that exists returns the duplicate
\* error and the deferred Unlock runs.
RegCheck(g) ==
    /\ gpc[g] = "check"
    /\ IF normalize(gop[g].name) \in DOMAIN providers[RaceCap]
       THEN /\ gpc' = [gpc EXCEPT ![g] = "done"]
            /\ gret' = [gret EXCEPT ![g] = [NoReturn EXCEPT !.done = TRUE,
                                                            !.err = "duplicate"]]
            /\ rwmu' = [rwmu EXCEPT !.writer = IF @ = g THEN 0 ELSE @]
       ELSE /\ gpc' = [gpc EXCEPT ![g] = "store"]
            /\ UNCHANGED <<gret, rwmu>>
    /\ UNCHANGED gop
    /\ UNCHANGED <<runnerVars, regVars, resVars, serveVars, handleVars, heapVars, dispVars>>

\* r.providers[key] = constructor; return nil; the deferred Unlock runs.
RegStore(g) ==
    /\ gpc[g] = "store"
    /\ LET key == normalize(gop[g].name)
           reg == providers[RaceCap] IN
         providers' = [providers EXCEPT ![RaceCap] =
                          [k \in DOMAIN reg \cup {key} |->
                              IF k = key THEN gop[g].ctor ELSE reg[k]]]
    /\ registered' = registered \cup {<<RaceCap, gop[g].name, gop[g].ctor>>}
    /\ gpc' = [gpc EXCEPT ![g] = "done"]
    /\ gret' = [gret EXCEPT ![g] = [NoReturn EXCEPT !.done = TRUE, !.ok = TRUE]]
    /\ rwmu' = [rwmu EXCEPT !.writer = IF @ = g THEN 0 ELSE @]
    /\ UNCHANGED <<gop, last, nops>>
    /\ UNCHANGED <<runnerVars, resVars, serveVars, handleVars, heapVars, dispVars>>

\* r.mu.RLock() in Get and Names
ReadLock(g) ==
    /\ gpc[g] = "begin"
    /\ gop[g].op \in {"Get", "Names"}
    /\ CanRLock
    /\ rwmu' = [rwmu EXCEPT !.readers = @ \cup {g}]
    /\ gpc' = [gpc EXCEPT ![g] = "read"]
    /\ UNCHANGED <<gop, gret>>
    /\ UNCHANGED <<runnerVars, regVars, resVars, serveVars, handleVars, heapVars, dispVars>>

\* The body of Get, its return and the deferred RUnlock.
GetRead(g) ==
    /\ gpc[g] = "read"
    /\ gop[g].op = "Get"
    /\ LET r == Get(providers[RaceCap], gop[g].name) IN
         gret' = [gret EXCEPT ![g] = [NoReturn EXCEPT !.done = TRUE,
                                                      !.ctor = r.ctor, !.ok = r.ok]]
    /\ rwmu' = [rwmu EXCEPT !.readers = @ \ {g}]
    /\ gpc' = [gpc EXCEPT ![g] = "done"]
    /\ UNCHANGED gop
    /\ UNCHANGED <<runnerVars, regVars, resVars, serveVars, handleVars, heapVars, dispVars>>

\* The body of Names, its return and the deferred RUnlock.
NamesRead(g) ==
    /\ gpc[g] = "read"
    /\ gop[g].op = "Names"
    /\ gret' = [gret EXCEPT ![g] = [NoReturn EXCEPT !.done = TRUE, !.ok = TRUE,
                                       !.names = Names(providers[RaceCap])]]
    /\ rwmu' = [rwmu EXCEPT !.readers = @ \ {g}]
    /\ gpc' = [gpc EXCEPT ![g] = "done"]
    /\ UNCHANGED gop
    /\ UNCHANGED <<runnerVars, regVars, resVars, serveVars, handleVars, heapVars, dispVars>>

RaceIdle ==
    /\ rwmu = [writer |-> 0, readers |-> {}]
    /\ gpc = <<>>
    /\ gop = <<>>
    /\ gret = <<>>

\* Every goroutine is given one call; goroutines are interchangeable, so the
\* calls are handed out in the order of RaceCalls.
RaceInit ==
    /\ rwmu = [writer |-> 0, readers |-> {}]
    /\ gpc = [g \in Goroutines |-> "begin"]
    /\ \E pick \in [Goroutines -> 1..Len(RaceCalls)] :
          /\ \A g \in Goroutines : \A k \in Goroutines : g < k => pick[g] <= pick[k]
          /\ gop = [g \in Goroutines |-> RaceCalls[pick[g]]]
    /\ gret = [g \in Goroutines |-> NoReturn]

RaceNext ==
    \E g \in Goroutines :
        \/ RegEnter(g)
        \/ RegLock(g)
        \/ RegCheck(g)
        \/ RegStore(g)
        \/ ReadLock(g)
        \/ GetRead(g)
        \/ NamesRead(g)

\* ========================================================== several handles
\* Plugin handles built by the newXPluginProvider constructors, and the
\* goroutines calling them.
NumHandles == 2
Handles == 1..NumHandles

NumUsers == 3
Users == 1..NumUsers

\* One mutex for every executable path: handles of one path would share it.
MutexOfPath(h) ==
    CHOOSE k \in Handles :
        /\ hpath[k] = hpath[h]
        /\ \A j \in Handles : hpath[j] = hpath[h] => k <= j

\* pluginRunner.mu is a field of the struct newPluginRunner allocates, and
\* every constructor calls newPluginRunner: one mutex for every handle.
MutexOf(h) == h

\* The user's call is inside r.mu.Lock() ... Unlock().
InCallOn(u) == hpc[u] \in {"start", "write", "read"}

\* The user's call cannot take its next step: it waits for a held mutex or
\* for a response of a living subprocess.
Blocked(u) ==
    \/ hpc[u] = "lock" /\ hmu[MutexOf(hof[u])] # 0
    \/ hpc[u] = "read" /\ hout[hof[u]] = <<>> /\ hproc[hof[u]] = "alive"

\* return from call: the deferred r.mu.Unlock() runs.
HReturn(u, how) ==
    /\ hpc' = [hpc EXCEPT ![u] = "done"]
    /\ hres' = [hres EXCEPT ![u] = how]
    /\ hmu' = [hmu EXCEPT ![MutexOf(hof[u])] = 0]

\* r.mu.Lock() returns.
HLock(u) ==
    /\ hpc[u] = "lock"
    /\ hmu[MutexOf(hof[u])] = 0
    /\ hmu' = [hmu EXCEPT ![MutexOf(hof[u])] = u]
    /\ hpc' = [hpc EXCEPT ![u] = "start"]
    /\ hsaw' = [hsaw EXCEPT ![u] = \E v \in Users : hof[v] # hof[u] /\ Blocked(v)]
    /\ UNCHANGED <<hpath, hcmd, hproc, hin, hout, hof, hres>>
    /\ UNCHANGED <<runnerVars, regVars, resVars, serveVars, raceVars, heapVars, dispVars>>

\* if r.cmd == nil: start r.path as a subprocess of this handle, or fail.
HStart(u) ==
    /\ hpc[u] = "start"
    /\ IF hcmd[hof[u]] = "nil"
       THEN \/ /\ hcmd' = [hcmd EXCEPT ![hof[u]] = "set"]
               /\ hproc' = [hproc EXCEPT ![hof[u]] = "alive"]
               /\ hpc' = [hpc EXCEPT ![u] = "write"]
               /\ UNCHANGED <<hmu, hres>>
            \/ /\ HReturn(u, "start_err")
               /\ UNCHANGED <<hcmd, hproc>>
       ELSE /\ hpc' = [hpc EXCEPT ![u] = "write"]
            /\ UNCHANGED <<hmu, hres, hcmd, hproc>>
    /\ UNCHANGED <<hpath, hin, hout, hof, hsaw>>
    /\ UNCHANGED <<runnerVars, regVars, resVars, serveVars, raceVars, heapVars, dispVars>>

\* r.enc.Encode(...) into the stdin of this handle's subprocess.
HWrite(u) ==
    /\ hpc[u] = "write"
    /\ IF hproc[hof[u]] = "alive"
       THEN /\ hin' = [hin EXCEPT ![hof[u]] = EncodeReq(@, u)]
            /\ hpc' = [hpc EXCEPT ![u] = "read"]
            /\ UNCHANGED <<hmu, hres>>
       ELSE /\ HReturn(u, "write_err")
            /\ UNCHANGED hin
    /\ UNCHANGED <<hpath, hcmd, hproc, hout, hof, hsaw>>
    /\ UNCHANGED <<runnerVars, regVars, resVars, serveVars, raceVars, heapVars, dispVars>>

\* r.dec.Decode(&resp) from the stdout of this handle's subprocess.
HRead(u) ==
    /\ hpc[u] = "read"
    /\ \/ /\ hout[hof[u]] # <<>>
          /\ hout' = [hout EXCEPT ![hof[u]] = AfterDecode(@)]
          /\ HReturn(u, IF Head(hout[hof[u]]) = u THEN "ok" ELSE "crossed")
       \/ /\ hout[hof[u]] = <<>>
          /\ hproc[hof[u]] = "dead"
          /\ HReturn(u, "read_err")
          /\ UNCHANGED hout
    /\ UNCHANGED <<hpath, hcmd, hproc, hin, hof, hsaw>>
    /\ UNCHANGED <<runnerVars, regVars, resVars, serveVars, raceVars, heapVars, dispVars>>

\* The subprocess of handle h answers the oldest request it has been sent.
HAnswer(h) ==
    /\ hproc[h] = "alive"
    /\ hin[h] # <<>>
    /\ hout' = [hout EXCEPT ![h] = Append(@, Head(hin[h]))]
    /\ hin' = [hin EXCEPT ![h] = Tail(@)]
    /\ UNCHANGED <<hpath, hmu, hcmd, hproc, hof, hpc, hres, hsaw>>
    /\ UNCHANGED <<runnerVars, regVars, resVars, serveVars, raceVars, heapVars, dispVars>>

\* The subprocess of handle h exits or is killed.
HExit(h) ==
    /\ hproc[h] = "alive"
    /\ hproc' = [hproc EXCEPT ![h] = "dead"]
    /\ hin' = [hin EXCEPT ![h] = <<>>]
    /\ UNCHANGED <<hpath, hmu, hcmd, hout, hof, hpc, hres, hsaw>>
    /\ UNCHANGED <<runnerVars, regVars, resVars, serveVars, raceVars, heapVars, dispVars>>

\* All handles are built for one executable path, or the last of them for
\* another (call never reads r.path after the start of the subprocess); every
\* user has called one handle and is at r.mu.Lock(). Users are
\* interchangeable, so the first user has the first handle and every next
\* user the handle of the user before it or the next handle.
HandlesInit ==
    /\ hpath \in [Handles -> {PluginP, PluginQ}]
    /\ \A h \in Handles \ {NumHandles} : hpath[h] = PluginP
    /\ hmu = [h \in Handles |-> 0]
    /\ hcmd = [h \in Handles |-> "nil"]
    /\ hproc = [h \in Handles |-> "none"]
    /\ hin = [h \in Handles |-> <<>>]
    /\ hout = [h \in Handles |-> <<>>]
    /\ hof \in [Users -> Handles]
    /\ hof[1] = 1
    /\ \A u \in Users \ {1} : hof[u] \in {hof[u - 1], hof[u - 1] + 1}
    /\ hpc = [u \in Users |-> "lock"]
    /\ hres = [u \in Users |-> "none"]
    /\ hsaw = [u \in Users |-> FALSE]

HandlesNext ==
    \/ \E u \in Users : HLock(u) \/ HStart(u) \/ HWrite(u) \/ HRead(u)
    \/ \E h \in Handles : HAnswer(h) \/ HExit(h)

\* ================================================= providers over a lifetime
\* The provider objects built in one process, and the field
\* s.<capability>.provider of every handler pointing at one of them.
MaxBuilt == 3

\* A provider object: the provider it was built as and, for a plugin
\* provider, its runner's cmd and subprocess.
NewObject(capability, provider) ==
    [cap |-> capability, provider |-> provider, cmd |-> "nil", proc |-> "none"]

\* Whether handleProviderConfig reaches the assignment of
\* s.<capability>.provider for the request.
Installs(hs, secv, r) ==
    LET n == normalizeCapability(TrimPrefix(r.path, ProvidersPrefix))
        d == decodeConfigRequest(r.body)
    IN  /\ secv # "nil"
        /\ n.ok
        /\ d.ok
        /\ d.req.provider # Empty
        /\ n.capability \in Configurable
        /\ handleCapabilityProviderConfig(hs, n.capability, d.req.provider,
                                          d.req.plugin, d.req.cfg).err = NoErr

Heap(os, act) == [objs |-> os, active |-> act]

InstallInPlace(os, act, capability, provider) ==
    IF act[capability] = 0
    THEN Heap(Append(os, NewObject(capability, provider)),
              [act EXCEPT ![capability] = Len(os) + 1])
    ELSE Heap([os EXCEPT ![act[capability]].provider = provider], act)

InstallStoppingOld(os, act, capability, provider) ==
    Heap(Append(IF act[capability] = 0
                THEN os
                ELSE [os EXCEPT ![act[capability]].proc =
                                   IF @ = "alive" THEN "dead" ELSE @],
                NewObject(capability, provider)),
         [act EXCEPT ![capability] = Len(os) + 1])

\* s.<capability>.provider = newXPluginProvider(pluginPath, cfg), or
\* = provider after constructor(cfg): the field is set to the object just
\* built; the object it pointed at is not touched.
Install(os, act, capability, provider) ==
    Heap(Append(os, NewObject(capability, provider)),
         [act EXCEPT ![capability] = Len(os) + 1])

\* pluginRunner.call on the object's runner, as far as the subprocess goes:
\* it is started when r.cmd == nil and the start succeeds, and it is never
\* waited for, signalled or started again. An in-process provider has none.
CallObject(o, spawns) ==
    IF o.provider.kind = "plugin" /\ o.cmd = "nil" /\ spawns
    THEN [o EXCEPT !.cmd = "set", !.proc = "alive"]
    ELSE o

\* Reconfiguration requests of this specification: an in-process provider, a
\* plugin, and a name that is not registered, for two capabilities.
ReplaceRequests ==
    {Request("POST", ProvidersPrefix \o w, b, AuthzNone) :
        w \in {Incident, Plural(Log)},
        b \in {ConfigBody(Mock, JsonEmpty, Empty), ConfigBody(Mock, JsonEmpty, PluginP),
               ConfigBody(Nope, NoField, Empty)}}

\* ServeHTTP on a reconfiguration request, whole, with the object built.
Reconfigure ==
    /\ Len(objs) < MaxBuilt
    /\ \E r \in ReplaceRequests : \E putOK \in BOOLEAN :
         \E k \in {handleProviderConfig(handlers, store, sec, r, putOK)} :
         \E capability \in {normalizeCapability(TrimPrefix(r.path, ProvidersPrefix)).capability} :
         \E h \in {IF Installs(handlers, sec, r)
                   THEN Install(objs, active, capability, k.handlers[capability])
                   ELSE Heap(objs, active)} :
             /\ resp' = k.resp
             /\ handlers' = k.handlers
             /\ store' = k.store
             /\ audit' = k.entries
             /\ objs' = h.objs
             /\ active' = h.active
    /\ UNCHANGED pending
    /\ UNCHANGED <<bearer, req, served, invoked, envelopes, rpc, callErr, callVal>>
    /\ UNCHANGED <<env, sec, step, server, loaded, trace>>
    /\ UNCHANGED <<runnerVars, regVars, raceVars, handleVars, dispVars>>

\* A capability handler reads s.<capability>.provider for a request.
Acquire(capability) ==
    /\ pending = 0
    /\ active[capability] # 0
    /\ pending' = active[capability]
    /\ UNCHANGED <<objs, active>>
    /\ UNCHANGED <<runnerVars, regVars, resVars, serveVars, raceVars, handleVars, dispVars>>

\* The handler calls the method of the provider it read.
CallPending ==
    /\ pending # 0
    /\ \E spawns \in BOOLEAN :
         objs' = [objs EXCEPT ![pending] = CallObject(@, spawns)]
    /\ pending' = 0
    /\ UNCHANGED active
    /\ UNCHANGED <<runnerVars, regVars, resVars, serveVars, raceVars, handleVars, dispVars>>

\* The subprocess of object i exits by itself or is killed from outside.
ObjExit(i) ==
    /\ i \in 1..Len(objs)
    /\ objs[i].proc = "alive"
    /\ objs' = [objs EXCEPT ![i].proc = "dead"]
    /\ UNCHANGED <<active, pending>>
    /\ UNCHANGED <<runnerVars, regVars, resVars, serveVars, raceVars, handleVars, dispVars>>

HeapIdle == objs = <<>> /\ active = <<>> /\ pending = 0

\* A built server with a secret store and either no provider or the incident
\* provider resolved at startup as a plugin.
ReplaceInit ==
    /\ sec = "store"
    /\ \E old \in BOOLEAN :
         /\ handlers = [c \in Caps |-> IF old /\ c = "incident"
                                       THEN PluginProvider(PluginQ, "empty") ELSE NilProvider]
         /\ objs = IF old THEN <<NewObject("incident", PluginProvider(PluginQ, "empty"))>>
                   ELSE <<>>
         /\ active = [c \in Caps |-> IF old /\ c = "incident" THEN 1 ELSE 0]
    /\ pending = 0
    /\ store = [k \in {providerConfigKey(c) : c \in Caps} |-> Missing]
    /\ req = NoRequest
    /\ bearer = <<>>
    /\ served = FALSE
    /\ resp = NoResponse
    /\ invoked = <<>>
    /\ audit = <<>>
    /\ envelopes = 0
    /\ rpc = NoReply
    /\ callErr = NoErr
    /\ callVal = "none"
    /\ providers = PreRegistered
    /\ registered = {<<cap, k, PreRegistered[cap][k]>> : cap \in Caps, k \in {Mock, Bad}}
    /\ last = NoOp
    /\ nops = 0
    /\ env = [c \in Caps |-> NoEnv]
    /\ step = Len(ServerCaps) + 1
    /\ server = "built"
    /\ loaded = [c \in Caps |-> NotLoaded]
    /\ trace = [c \in Caps |-> NoTrace]

ReplaceNext ==
    \/ Reconfigure
    \/ \E capability \in Caps : Acquire(capability)
    \/ CallPending
    \/ \E i \in 1..MaxBuilt : ObjExit(i)

\* ============================================================ the dispatch
\* ServeHTTP with every case of its switch, and the writes to the
\* http.ResponseWriter in the order they are made.

\* http.NotFound(w, r)
NotFound == Response(404, TextBody("404 page not found"))

\* func (s *Server) handleProviders(w, r) bool: GET /providers/<capability>
\* lists the names registered for the capability.
handleProviders(r) ==
    IF DeclinesProviders(r)
    THEN Declined
    ELSE LET n == normalizeCapability(TrimPrefix(r.path, ProvidersPrefix)) IN
         IF ~n.ok
         THEN Written(writeError(404, <<"not_found">>, <<"unknown capability">>))
         ELSE Written(writeJSON(200, [providers |-> Names(providers[n.capability])]))

\* A case of the switch once evaluated: what the handler returned, and what
\* it wrote before returning.
Case(ok, writes) == [ok |-> ok, writes |-> writes]

\* A capability handler as a case: it returns false having written nothing,
\* or writes a response and returns true, or calls the provider and writes
\* what done holds.
CaseOf(g, done) ==
    IF g.kind = "declined"
    THEN Case(FALSE, <<>>)
    ELSE IF g.kind = "written"
         THEN Case(TRUE, <<g.resp>>)
         ELSE Case(TRUE, done)

\* A switch without its default clause.
SwitchNoDefault(cases) ==
    LET I == {i \in 1..Len(cases) : cases[i].ok}
    IN  IF I = {} THEN <<>> ELSE cases[CHOOSE i \in I : \A j \in I : i <= j].writes

\* switch { case s.handleProviders(w, r): ... default: http.NotFound(w, r) }:
\* the cases are evaluated in order up to the first that is true; when none
\* is, the default clause runs. The result is everything written.
RECURSIVE Switch(_)
Switch(cases) ==
    IF cases = <<>>
    THEN <<NotFound>>
    ELSE IF Head(cases).ok
         THEN Head(cases).writes
         ELSE Head(cases).writes \o Switch(Tail(cases))

\* The cases of ServeHTTP's switch after "/" and "/health", in its order.
\* config is what handleProviderConfig wrote, done what the provider call of
\* a capability handler led to.
Cases(s, r, config, done) ==
    << CaseOf(handleProviders(r), <<>>),
       IF DeclinesProviderConfig(r) THEN Case(FALSE, <<>>) ELSE Case(TRUE, config),
       CaseOf(handleIncident(s, r), done), CaseOf(handleAlert(s, r), done),
       CaseOf(handleLog(s, r), done), CaseOf(handleMetric(s, r), done),
       CaseOf(handleTicket(s, r), done), CaseOf(handleMessaging(s, r), done),
       CaseOf(handleService(s, r), done), CaseOf(handleDeployment(s, r), done) >>

\* The request passes the method and bearer checks and is neither GET / nor
\* GET /health: the switch goes on to the handlers.
ReachesHandlers(token, r) ==
    /\ r.method # "OPTIONS"
    /\ authorize(token, r)
    /\ ~(r.path \in {RootPath, HealthPath} /\ r.method = "GET")

\* Everything ServeHTTP writes for the request.
Writes(s, token, r, config, done) ==
    IF r.method = "OPTIONS"
    THEN <<Response(200, NoBody)>>
    ELSE IF ~authorize(token, r)
    THEN <<Response(401, TextBody("unauthorized"))>>
    ELSE IF r.path \in {RootPath, HealthPath} /\ r.method = "GET"
    THEN <<writeJSON(200, "{status:ok}")>>
    ELSE Switch(Cases(s, r, config, done))

\* The requests of this specification: those of the capability handlers, and
\* listings and reconfigurations under /providers/.
DispatchRequests ==
    {r \in {Request(m, p, b, AuthzNone) : m \in Methods, p \in Paths,
                                         b \in {BodyObject, BodyBroken}} :
        DeclinesProviders(r) /\ DeclinesProviderConfig(r)}
    \cup {Request(m, ProvidersPrefix \o w, b, AuthzNone) :
            m \in {"GET", "POST"},
            w \in {Incident, Plural(Log), Team, <<>>},
            b \in {ConfigBody(Mock, JsonEmpty, Empty),
                   ConfigBody(Mock, JsonEmpty, PluginP),
                   ConfigBody(Nope, NoField, Empty), NotJson("broken")}}

\* ServeHTTP on the request at hand, whole, with every handler of the switch.
Dispatch ==
    /\ ~served
    /\ served' = TRUE
    /\ \E g \in {ServeHTTP(handlers, bearer, req)} :
       \E config \in {ReachesHandlers(bearer, req) /\ ~DeclinesProviderConfig(req)} :
       \E putOK \in (IF config THEN BOOLEAN ELSE {TRUE}) :
       \E a \in (IF g.kind = "forward"
                 THEN Answers(handlers[g.op.capability], g.op) ELSE {NoAnswer}) :
       \E ret \in {IF g.kind = "forward"
                   THEN Invoke(handlers[g.op.capability], a, g.op)
                   ELSE Returned(NoErr, "none", 0, NoReply, cmd, proc, decErr, starts)} :
       \E k \in {IF config
                 THEN handleProviderConfig(handlers, store, sec, req, putOK)
                 ELSE Configured(NoResponse, handlers, store, <<>>)} :
       \E w \in {Writes(handlers, bearer, req, <<k.resp>>,
                        IF g.kind # "forward" \/ ret.panic
                        THEN <<>> ELSE <<Completed(g.op, ret).resp>>)} :
           /\ wrote' = w
           /\ resp' = IF w = <<>> THEN NoResponse ELSE w[Len(w)]
           /\ handlers' = k.handlers
           /\ store' = k.store
           /\ audit' = IF g.kind = "forward" THEN Completed(g.op, ret).entries ELSE k.entries
           /\ invoked' = IF g.kind = "forward" THEN Invocations(g.op, ret) ELSE <<>>
           /\ envelopes' = ret.envelopes
           /\ rpc' = ret.reply
           /\ callErr' = ret.err
           /\ callVal' = ret.val
           /\ cmd' = ret.cmd
           /\ proc' = ret.proc
           /\ decErr' = ret.decErr
           /\ starts' = ret.starts
    /\ UNCHANGED <<bearer, req>>
    /\ UNCHANGED <<mu, procCtx, exitCause, stdin, stdout, pc, callNo, ctxDone, outcome,
                   result, atBegin, written, readLog>>
    /\ UNCHANGED <<env, sec, step, server, loaded, trace>>
    /\ UNCHANGED <<regVars, raceVars, handleVars, heapVars>>

\* A built server with or without a bearer token and a secret store, one
\* capability with or without a provider, and one request arriving.
DispatchInit ==
    /\ sec \in {"nil", "store"}
    /\ \E a \in {"incident", "log", "deployment"} : \E kind \in {"nil", "inproc", "plugin"} :
         /\ kind = "nil" => a = "incident"
         /\ handlers = [c \in Caps |-> IF c = a THEN ProviderOfKind(kind) ELSE NilProvider]
    /\ \E r \in DispatchRequests :
       \E auth \in {<<<<>>, AuthzNone>>, <<Token, AuthzNone>>, <<Token, AuthzGood>>} :
         /\ bearer = auth[1]
         /\ req = [r EXCEPT !.authz = auth[2]]
    /\ wrote = <<>>
    /\ store = [k \in {providerConfigKey(c) : c \in Caps} |-> Missing]
    /\ served = FALSE
    /\ resp = NoResponse
    /\ invoked = <<>>
    /\ audit = <<>>
    /\ envelopes = 0
    /\ rpc = NoReply
    /\ callErr = NoErr
    /\ callVal = "none"
    /\ providers = PreRegistered
    /\ registered = {<<cap, k, PreRegistered[cap][k]>> : cap \in Caps, k \in {Mock, Bad}}
    /\ last = NoOp
    /\ nops = 0
    /\ env = [c \in Caps |-> NoEnv]
    /\ step = Len(ServerCaps) + 1
    /\ server = "built"
    /\ loaded = [c \in Caps |-> NotLoaded]
    /\ trace = [c \in Caps |-> NoTrace]

DispatchNext == Dispatch

\* ----------------------------------------------------------- specifications
HandlesIdle ==
    /\ hpath = <<>> /\ hmu = <<>> /\ hcmd = <<>> /\ hproc = <<>>
    /\ hin = <<>> /\ hout = <<>>
    /\ hof = <<>> /\ hpc = <<>> /\ hres = <<>> /\ hsaw = <<>>

DispIdle == wrote = <<>>

ConcIdle == RaceIdle /\ HandlesIdle /\ HeapIdle /\ DispIdle

InitRunner == RunnerInit /\ RegistryInit /\ ResolveIdle /\ ServeIdle /\ ConcIdle
SpecRunner == InitRunner /\ [][RunnerNext]_vars

InitRegistry == RunnerInit /\ RegistryInit /\ ResolveIdle /\ ServeIdle /\ ConcIdle
SpecRegistry == InitRegistry /\ [][RegistryNext]_vars

InitResolve ==
    /\ RunnerInit
    /\ providers = PreRegistered
    /\ registered = {<<cap, k, PreRegistered[cap][k]>> : cap \in Caps, k \in {Mock, Bad}}
    /\ last = NoOp
    /\ nops = 0
    /\ ResolveInit
    /\ ServeIdle
    /\ ConcIdle
SpecResolve == InitResolve /\ [][BuildHandler]_vars

InitServe == ServeInit /\ ConcIdle
SpecServe == InitServe /\ [][ServeNext]_vars

InitConfigure == RunnerInit /\ ConfigureInit /\ ConcIdle
SpecConfigure == InitConfigure /\ [][ConfigureNext]_vars

InitRegistryRace ==
    /\ RunnerInit /\ RegistryInit /\ ResolveIdle /\ ServeIdle
    /\ RaceInit /\ HandlesIdle /\ HeapIdle /\ DispIdle
SpecRegistryRace == InitRegistryRace /\ [][RaceNext]_vars

InitHandles ==
    /\ RunnerInit /\ RegistryInit /\ ResolveIdle /\ ServeIdle
    /\ RaceIdle /\ HandlesInit /\ HeapIdle /\ DispIdle
SpecHandles == InitHandles /\ [][HandlesNext]_vars

InitReplace == RunnerInit /\ ReplaceInit /\ RaceIdle /\ HandlesIdle /\ DispIdle
SpecReplace == InitReplace /\ [][ReplaceNext]_vars

InitDispatch == RunnerInit /\ DispatchInit /\ RaceIdle /\ HandlesIdle /\ HeapIdle
SpecDispatch == InitDispatch /\ [][DispatchNext]_vars


\* =================================================================== claims
InCall(c) == pc[c] \in {"start", "write", "read"}

\* C1: a call holds the handle's lock from before its request is written until
\* after its response is read: whoever is starting the process, writing or
\* reading holds mu, so no two callers are ever between Lock and return
\* together, and the streams never carry more than the one envelope in flight.
C1_CallHoldsLockForRoundTrip ==
    /\ \A c \in Callers : InCall(c) => mu = c
    /\ \A c, d \in Callers : InCall(c) /\ InCall(d) => c = d
    /\ Len(stdin) + Len(stdout) <= 1
    /\ (\A c \in Callers : ~InCall(c)) => mu = 0 /\ stdout = <<>>

\* C1's case: one caller has written and waits for its response while another
\* caller waits for the lock.
C1_Witness ==
    \E c, d \in Callers : c # d /\ pc[c] = "read" /\ mu = c /\ pc[d] = "lock"

\* C2: with a plugin that answers every request once, in arrival order, every
\* call that succeeds received the response to its own request, and the k-th
\* response read answers the k-th request written.
C2_ResponseAnswersOwnRequest ==
    /\ \A c \in Callers : outcome[c] = "ok" => result[c] = ReqId(c)
    /\ Len(readLog) <= Len(written)
    /\ \A k \in 1..Len(readLog) : readLog[k] = written[k]

\* C2's case: two calls have been written and answered, the second after the
\* first.
C2_Witness ==
    /\ Len(readLog) = 2
    /\ readLog[1] # readLog[2]
    /\ \E c \in Callers : outcome[c] = "ok" /\ result[c] = readLog[2]

IsFailure(how) == how \in {"start_err", "write_err", "read_err"}

\* C3: cancelling a caller's context never terminates the subprocess and never
\* puts the stream out of step: the subprocess dies only of external causes, a
\* call fails only when the start failed or the subprocess is dead, and every
\* call that succeeds received the response to its own request.
C3_CancelLeavesProcessAndStream ==
    /\ exitCause # "ctx"
    /\ \A c \in Callers :
         /\ outcome[c] \in {"write_err", "read_err"} =>
              proc = "dead" /\ exitCause = "external"
         /\ outcome[c] = "start_err" => ~atBegin[c].dead
         /\ outcome[c] = "ok" => result[c] = ReqId(c)
    /\ (proc = "alive" /\ \A c \in Callers : ~InCall(c)) => stdin = <<>> /\ stdout = <<>>

\* C3's case: a call invoked after a context was cancelled on this handle has
\* succeeded with its own response, while a cancelled context is still around
\* and the subprocess lives.
C3_Witness ==
    \E c \in Callers :
        /\ atBegin[c].cancelled
        /\ outcome[c] = "ok"
        /\ result[c] = ReqId(c)
        /\ proc = "alive"
        /\ \E d \in Callers : ctxDone[d]

\* C4: the subprocess reference is empty until a call starts the process; once
\* a start has succeeded no call starts another one, also after the process
\* has exited or a call has failed; a call invoked after the process died
\* fails.
C4_StartedOnceNeverRespawned ==
    /\ starts <= 1
    /\ cmd = "nil" <=> starts = 0
    /\ cmd = "nil" <=> proc = "none"
    /\ (\A c \in Callers : callNo[c] = 0) => cmd = "nil"
    /\ \A c \in Callers : pc[c] \in {"write", "read"} \/ outcome[c] = "ok" => cmd = "set"
    /\ \A c \in Callers : pc[c] = "done" /\ atBegin[c].dead => IsFailure(outcome[c])

\* C4's case: the process was started, died, and a call invoked after its
\* death has failed without another start.
C4_Witness ==
    \E c \in Callers :
        /\ atBegin[c].dead
        /\ pc[c] = "done"
        /\ outcome[c] = "write_err"
        /\ starts = 1


\* The successful registration that put the key of name into cap's registry.
FirstRegistrations(cap, name) ==
    {r \in registered : r[1] = cap /\ normalize(r[2]) = normalize(name)}

\* C5: in every registry, a Register whose name case-folds to a key already
\* present returns the duplicate error and leaves the registry as it was: the
\* same keys, and Lookup still returns the first registration's constructor.
C5_DuplicateRegisterLeavesRegistry ==
    [][(/\ nops' = nops + 1
        /\ last'.op = "Register"
        /\ last'.name # <<>>
        /\ normalize(last'.name) \in DOMAIN providers[last'.cap])
       => (/\ last'.err = "duplicate"
           /\ providers' = providers
           /\ registered' = registered
           /\ \A r \in FirstRegistrations(last'.cap, last'.name) :
                Get(providers'[last'.cap], last'.name) = [ctor |-> r[3], ok |-> TRUE])]_vars

\* C5's case: a name was registered, and a Register of another spelling of it
\* with another constructor has just failed.
C5_Witness ==
    /\ last.op = "Register"
    /\ last.err = "duplicate"
    /\ \E r \in FirstRegistrations(last.cap, last.name) :
         /\ r[2] # last.name
         /\ r[3] # last.ctor
         /\ Get(providers[last.cap], last.name) = [ctor |-> r[3], ok |-> TRUE]

\* C6: after Register(n, c) has succeeded, Lookup of every spelling that equals
\* n after case-folding reports found and returns c, and so did the last
\* Lookup performed.
C6_LookupIsCaseInsensitive ==
    /\ \A r \in registered : \A m \in NameSet :
         normalize(m) = normalize(r[2]) =>
            Get(providers[r[1]], m) = [ctor |-> r[3], ok |-> TRUE]
    /\ last.op = "Get" =>
         \A r \in FirstRegistrations(last.cap, last.name) :
            last.ok /\ last.ctor = r[3]

\* C6's case: "Foo" was registered and Lookup("FOO") has just returned its
\* constructor.
C6_Witness ==
    /\ last.op = "Get"
    /\ last.name = FooUpper
    /\ last.ok
    /\ <<last.cap, Foo, last.ctor>> \in registered


\* What the environment says about a capability.
EnvName(cap) == TrimSpace(ToLower(env[cap].provider))
EnvPlugin(cap) == TrimSpace(env[cap].plugin)
EnvGivesSelection(cap) == EnvName(cap) # Empty \/ EnvPlugin(cap) # Empty
EnvConfigMalformed(cap) ==
    TrimSpace(env[cap].config) # Empty /\ ~JsonObject(TrimSpace(env[cap].config)).ok
EnvConfig(cap) ==
    IF TrimSpace(env[cap].config) = Empty
    THEN "empty"
    ELSE JsonObject(TrimSpace(env[cap].config)).val
StoreHoldsSelection(cap) ==
    sec = "store" /\ store[providerConfigKey(cap)].kind = "json"

\* C7: when the environment gives a provider name or a plugin path for a
\* capability and the secret store also holds a selection for it, resolution
\* never reads the store, and it returns the environment's selection: the
\* environment's name, plugin path and decoded config (C9 is the case of a
\* config that does not decode).
C7_EnvironmentWinsOverStore ==
    \A cap \in Caps :
        loaded[cap].done /\ EnvGivesSelection(cap) /\ StoreHoldsSelection(cap) =>
            /\ loaded[cap].reads = {}
            /\ trace[cap].reads = {}
            /\ ~EnvConfigMalformed(cap) =>
                 /\ loaded[cap].err = "none"
                 /\ loaded[cap].name = EnvName(cap)
                 /\ loaded[cap].plugin = EnvPlugin(cap)
                 /\ loaded[cap].cfg = EnvConfig(cap)

\* C7's case: the environment names "mock" with no plugin, the store holds a
\* selection with a plugin path, and resolution returned the environment's.
C7_Witness ==
    \E cap \in Caps :
        /\ loaded[cap].done
        /\ env[cap] = EnvOf(MockEnv, Empty, Empty)
        /\ sec = "store"
        /\ store[providerConfigKey(cap)] = Stored(Mock, "empty", PluginQ)
        /\ loaded[cap].name = Mock
        /\ loaded[cap].plugin = Empty
        /\ handlers[cap] = InProcProvider(Mock, "empty")

\* A capability whose environment makes its resolution fail: malformed JSON
\* config, a name no constructor is registered under, or a constructor that
\* rejects the config.
Misconfigured(cap) ==
    \/ EnvConfigMalformed(cap)
    \/ /\ EnvPlugin(cap) = Empty
       /\ EnvName(cap) # Empty
       /\ \/ ~Get(providers[cap], EnvName(cap)).ok
          \/ ~Constructs(Get(providers[cap], EnvName(cap)).ctor, EnvConfig(cap))

\* A capability whose environment names a registered provider whose
\* constructor accepts the config.
ValidlyConfigured(cap) ==
    /\ ~EnvConfigMalformed(cap)
    /\ EnvPlugin(cap) = Empty
    /\ EnvName(cap) # Empty
    /\ Get(providers[cap], EnvName(cap)).ok
    /\ Constructs(Get(providers[cap], EnvName(cap)).ctor, EnvConfig(cap))

\* C8: for every pair of distinct capabilities A and B, with A misconfigured
\* and B validly configured, NewServerFromEnv returns a server, A is left
\* without a provider and B has its provider.
C8_StartupIsolatesMisconfiguredCapability ==
    \A a \in Caps : \A b \in Caps \ {a} :
        server # "building" /\ Misconfigured(a) /\ ValidlyConfigured(b) =>
            /\ server = "built"
            /\ handlers[a] = NilProvider
            /\ handlers[b] # NilProvider

\* C9: when a capability's environment JSON config is present and does not
\* parse, resolution returns the configuration error at once: the store is not
\* read, no name is looked up, no constructor runs and no provider results.
C9_MalformedEnvConfigFailsResolution ==
    \A cap \in Caps :
        loaded[cap].done /\ EnvConfigMalformed(cap) =>
            /\ loaded[cap].err = "config"
            /\ loaded[cap].name = Empty /\ loaded[cap].plugin = Empty
            /\ loaded[cap].reads = {}
            /\ trace[cap] = NoTrace
            /\ handlers[cap] = NilProvider

\* C9's case: a malformed config with no name and no plugin in the
\* environment, while the store holds a selection a fall-through would find.
C9_Witness ==
    \E cap \in Caps :
        /\ loaded[cap].done
        /\ env[cap] = EnvOf(Empty, JsonBroken, Empty)
        /\ StoreHoldsSelection(cap)
        /\ loaded[cap].err = "config"

\* C10: for every capability, when the resolved selection has a plugin path,
\* with or without a provider name, resolution yields a plugin handle for that
\* path, looks no name up in the registry and runs no constructor.
C10_PluginPathYieldsPluginHandle ==
    \A cap \in Caps :
        loaded[cap].done /\ loaded[cap].err = "none" /\ loaded[cap].plugin # Empty =>
            /\ handlers[cap] = PluginProvider(loaded[cap].plugin, loaded[cap].cfg)
            /\ trace[cap].lookups = {}
            /\ trace[cap].ctors = 0

\* C11: for every capability, when the environment gives neither a provider
\* name nor a plugin path and the lookup of the capability's key in the secret
\* store fails, resolution returns no selection and no error, the capability
\* is left without a provider, and startup goes on past it.
C11_FailedStoreLookupIsNoSelection ==
    \A cap \in Caps :
        /\ loaded[cap].done
        /\ EnvName(cap) = Empty /\ EnvPlugin(cap) = Empty
        /\ providerConfigKey(cap) \in loaded[cap].reads
        /\ store[providerConfigKey(cap)].kind = "missing"
        =>  /\ loaded[cap].err = "none"
            /\ loaded[cap].name = Empty /\ loaded[cap].plugin = Empty
            /\ loaded[cap].cfg = "nil"
            /\ handlers[cap] = NilProvider
            /\ trace[cap].lookups = {} /\ trace[cap].ctors = 0
            /\ ~(server = "aborted" /\ ServerCaps[step] = cap)

\* C11's case: a store is configured, the first capability has no environment
\* selection and no stored value, and startup has gone on to build the server.
C11_Witness ==
    /\ sec = "store"
    /\ server = "built"
    /\ \E cap \in Caps :
        /\ EnvName(cap) = Empty /\ EnvPlugin(cap) = Empty
        /\ loaded[cap].reads = {providerConfigKey(cap)}
        /\ store[providerConfigKey(cap)].kind = "missing"
        /\ handlers[cap] = NilProvider

\* ------------------------------------------------------------------ dispatch
\* A request that passes the CORS preflight answer and the bearer-token check
\* of ServeHTTP and so reaches the handlers.
Dispatched(r) == r.method # "OPTIONS" /\ authorize(bearer, r)

\* The server with a provider for one capability only.
OnlyConfigured(cap) ==
    [c \in Caps |-> IF c = cap THEN InProcProvider(Mock, "empty") ELSE NilProvider]

\* The routes of a capability: the paths on which some request is forwarded to
\* the capability's provider when one is configured.
RouteTable ==
    [cap \in Caps |->
       {p \in Paths : \E m \in Methods :
          LET g == ServeHTTP(OnlyConfigured(cap), <<>>, Request(m, p, BodyObject, AuthzNone))
          IN  g.kind = "forward" /\ g.op.capability = cap}]

\* C12: for every capability without a provider, every request that reaches
\* the handlers on one of the capability's routes is answered with status 501
\* and code <capability>_provider_missing, whatever its method and body; no
\* provider method is called and the handler does not panic.
C12_MissingProviderAnswers501 ==
    \A cap \in Caps :
        /\ served
        /\ Dispatched(req)
        /\ handlers[cap] = NilProvider
        /\ req.path \in RouteTable[cap]
        =>  /\ resp.status = 501
            /\ resp.body.kind = "error"
            /\ resp.body.code = <<cap, "_provider_missing">>
            /\ invoked = <<>>

\* C12's case: a GET on /logs/query, which no log operation takes, while
\* another capability has a provider and log has none.
C12_Witness ==
    /\ served
    /\ Dispatched(req)
    /\ req.path = LogsQueryPath /\ req.method = "GET"
    /\ handlers["log"] = NilProvider
    /\ handlers["incident"] # NilProvider
    /\ resp.status = 501

\* The typed layers of an error chain.
TypedLayers(err) == {i \in 1..Len(err) : err[i].kind \in {"value", "pointer"}}

\* The provider method was called for the request and returned an error.
CallFailed == served /\ invoked # <<>> /\ callErr # NoErr /\ resp # NoResponse

C14_FailureBodyHasCodeAndMessage ==
    CallFailed =>
        /\ resp.body.kind = "error"
        /\ resp.body.code # <<>>
        /\ resp.body.message # <<>>

\* The plugin answered with an envelope carrying an error object.
PluginErrorRead ==
    /\ served
    /\ invoked # <<>>
    /\ rpc # NoReply
    /\ rpc.kind = "envelope"
    /\ rpc.error.present

\* C15: a plugin error object with a non-empty code makes the call fail with
\* a typed error of exactly that code and message; one with an empty code
\* and a non-empty message makes it fail with an untyped error.
C15_PluginErrorBecomesGoError ==
    PluginErrorRead =>
        /\ rpc.error.code # <<>> =>
              callErr = <<Value(rpc.error.code, rpc.error.message)>>
        /\ (rpc.error.code = <<>> /\ rpc.error.message # <<>>) =>
              /\ callErr # NoErr
              /\ TypedLayers(callErr) = {}

\* C15's case: the plugin answered an error with code rate_limited, and the
\* call returned the typed error holding that code.
C15_Witness ==
    /\ PluginErrorRead
    /\ rpc.error.code = <<"rate_limited">>
    /\ rpc.error.message = <<"boom">>
    /\ callErr = <<Value(<<"rate_limited">>, <<"boom">>)>>
    /\ resp.status = 502

\* The second case of C15: an error object with only a message.
C15_UntypedReached ==
    /\ PluginErrorRead
    /\ rpc.error.code = <<>>
    /\ rpc.error.message = <<"boom">>
    /\ callErr = <<Plain(<<"boom">>)>>

\* The operation the request at hand was forwarded as.
ForwardedOp == ServeHTTP(handlers, bearer, req).op

\* The plugin's response was read, and it carries no error, or an error
\* object whose code and message are both empty.
PluginAnsweredNoFailure ==
    /\ served
    /\ invoked # <<>>
    /\ rpc.kind = "envelope"
    /\ \/ ~rpc.error.present
       \/ rpc.error.code = <<>> /\ rpc.error.message = <<>>

\* The result field is absent, or the method has no output, or the result is
\* a text of the output's type.
ResultFits ==
    \/ rpc.result = ""
    \/ ForwardedOp.shape = "none"
    \/ Unmarshal(rpc.result, ForwardedOp.shape, Zero(ForwardedOp.shape)).ok

\* C16: a plugin response with no error, or with an error object whose code
\* and message are both empty, is not a failure: the call returns no error,
\* with the result decoded into the output when it is present and the output
\* left at its initial value when it is absent.
C16_EmptyErrorIsSuccess ==
    PluginAnsweredNoFailure /\ ResultFits =>
        /\ callErr = NoErr
        /\ callVal = IF rpc.result # "" /\ ForwardedOp.shape # "none"
                     THEN Unmarshal(rpc.result, ForwardedOp.shape, Zero(ForwardedOp.shape)).val
                     ELSE Zero(ForwardedOp.shape)

\* The part of C16 the runner does satisfy: a response with no error object.
C16_NoErrorObjectIsSuccess ==
    PluginAnsweredNoFailure /\ ResultFits /\ ~rpc.error.present =>
        /\ callErr = NoErr
        /\ callVal = IF rpc.result # "" /\ ForwardedOp.shape # "none"
                     THEN Unmarshal(rpc.result, ForwardedOp.shape, Zero(ForwardedOp.shape)).val
                     ELSE Zero(ForwardedOp.shape)

\* The in-process answer that corresponds to the plugin's response: the typed
\* error (c, m) for an error object {c, m}, the Go value the result text
\* denotes for a result.
InProcTwin(reply, op) ==
    IF reply.error.present
    THEN Answer(<<Value(reply.error.code, reply.error.message)>>, Zero(op.shape), TRUE, NoReply)
    ELSE Answer(NoErr,
                IF reply.result # "" /\ op.shape # "none"
                    THEN Unmarshal(reply.result, op.shape, Zero(op.shape)).val
                    ELSE Zero(op.shape),
                TRUE, NoReply)

\* The plugin answered with an error object of non-empty code, or with no
\* error object and a result of the output's type.
PluginAnsweredErrorOrValue ==
    /\ served
    /\ invoked # <<>>
    /\ rpc.kind = "envelope"
    /\ \/ rpc.error.present /\ rpc.error.code # <<>>
       \/ ~rpc.error.present /\ ResultFits

\* C17: a plugin answering with error {c, m}, c non-empty, or with result v
\* gets the HTTP status and body an in-process provider returning the typed
\* error (c, m), or the value v, gets for the same request.
C17_PluginAndInProcAnswerAlike ==
    PluginAnsweredErrorOrValue =>
        resp = Completed(ForwardedOp, InProcMethod(InProcTwin(rpc, ForwardedOp), ForwardedOp)).resp

\* C17's two cases: a typed error answered 404, and a result answered 200
\* with the value in the body.
C17_Witness ==
    /\ PluginAnsweredErrorOrValue
    /\ rpc.error.present
    /\ rpc.error.code = <<"not_found">>
    /\ resp.status = 404
    /\ resp.body.message = <<"boom">>

C17_ValueReached ==
    /\ PluginAnsweredErrorOrValue
    /\ ~rpc.error.present
    /\ rpc.result = "[{p1}]"
    /\ resp.status = 200
    /\ resp.body.payload = "[{p1}]"

\* C18: serving one request invokes a provider method at most once, and a
\* plugin-backed invocation writes at most one request envelope (an
\* in-process one writes none); a call that failed is not made again.
C18_AtMostOneInvocation ==
    served =>
        /\ Len(invoked) <= 1
        /\ envelopes <= 1
        /\ invoked = <<>> => envelopes = 0
        /\ \A cap \in Caps :
              (invoked # <<>> /\ invoked[1].capability = cap /\ handlers[cap].kind = "inproc")
                  => envelopes = 0
        /\ callErr # NoErr => Len(invoked) = 1

\* C18's case: a plugin-backed call wrote its envelope, failed, and was the
\* only invocation.
C18_Witness ==
    /\ served
    /\ callErr # NoErr
    /\ rpc.kind = "envelope"
    /\ envelopes = 1
    /\ Len(invoked) = 1

\* The provider call of the request at hand succeeded.
CallSucceeded == served /\ invoked # <<>> /\ callErr = NoErr /\ resp # NoResponse

\* C19: for every capability and operation, a successful provider call emits
\* an audit record named <capability>.<operation>.
C19_SuccessEmitsAuditRecord ==
    CallSucceeded =>
        \E i \in 1..Len(audit) :
            audit[i].action = <<ForwardedOp.capability, ".">> \o ForwardedOp.name

\* The capabilities whose handlers do emit that record.
C19_AuditedCapabilities ==
    (CallSucceeded /\ ForwardedOp.capability \in {"alert", "log", "deployment"}) =>
        audit = <<logAudit(<<ForwardedOp.capability, ".">> \o ForwardedOp.name)>>

\* The request at hand is one a handler forwards to its provider when its
\* body is a well-formed payload, and it is of a method that carries a body.
TakesPayload ==
    /\ Dispatched(req)
    /\ req.method \in {"POST", "PATCH"}
    /\ ServeHTTP(handlers, bearer, [req EXCEPT !.body = BodyObject]).kind = "forward"

\* The bodies that are not a JSON value of the payload type: no text, an
\* object with a field the type does not have, a text that is not JSON.
UndecodableBodies == {BodyNone, BodyUnknown, BodyBroken}

\* C20: a request whose body does not decode into the operation's payload
\* type, a field the type does not have included, is answered 400 with code
\* bad_request and the decode failure as message, and no provider is invoked.
C20_UndecodableBodyIs400 ==
    (served /\ TakesPayload /\ req.body \in UndecodableBodies) =>
        /\ resp = Response(400, ErrorBody(<<"bad_request">>, decodeJSON(req.body).msg))
        /\ resp.body.message # <<>>
        /\ invoked = <<>>
        /\ envelopes = 0

\* C20's case: a query with a field the payload type does not have.
C20_Witness ==
    /\ served
    /\ TakesPayload
    /\ req.body = BodyUnknown
    /\ req.path = LogsQueryPath
    /\ handlers["log"] # NilProvider
    /\ resp.status = 400
    /\ invoked = <<>>

\* ----------------------------------------------------------- reconfiguration
\* The capability the reconfiguration request at hand names.
PostedCapability == normalizeCapability(TrimPrefix(req.path, ProvidersPrefix))

\* The selection the request at hand carries.
PostedSelection == decodeConfigRequest(req.body).req

\* The reconfiguration request was answered 200.
PostSucceeded == served /\ resp = writeJSON(200, "{status:ok}")

\* C21: after POST /providers/<capability> succeeds with a selection
\* {provider, config, plugin}, the store holds that selection under
\* providers/<capability>/default, and the next resolution of the capability
\* with no environment settings returns exactly that name, config and plugin
\* path.
C21_StoredSelectionIsResolved ==
    \A cap \in Caps :
        (PostSucceeded /\ PostedCapability = Canonical(cap)) =>
            /\ store[providerConfigKey(cap)] =
                   Stored(PostedSelection.provider, PostedSelection.cfg, PostedSelection.plugin)
            /\ loaded[cap].done =>
                  /\ loaded[cap].err = "none"
                  /\ loaded[cap].name = PostedSelection.provider
                  /\ loaded[cap].cfg = PostedSelection.cfg
                  /\ loaded[cap].plugin = PostedSelection.plugin
                  /\ loaded[cap].reads = {providerConfigKey(cap)}

\* C21's case: POST /providers/Incidents with provider Mock, a token config
\* and a plugin path succeeded, and the startup that followed resolved
\* incident to that selection.
C21_Witness ==
    /\ PostSucceeded
    /\ req.path = ProvidersPrefix \o <<"I", "n", "c", "i", "d", "e", "n", "t", "s">>
    /\ req.body = ConfigBody(MockMixed, JsonToken, PluginP)
    /\ server = "built"
    /\ loaded["incident"].done
    /\ loaded["incident"].name = MockMixed
    /\ loaded["incident"].cfg = "token=t"
    /\ loaded["incident"].plugin = PluginP

\* The process has been started again after the request was served.
Restarted == server # "built" \/ \E c \in Caps : loaded[c].done

\* The request at hand is a valid reconfiguration of cap: a secret store is
\* configured and took the write, the path names cap, and the body names a
\* provider registered for cap whose constructor accepts the config.
ValidPost(cap) ==
    /\ served
    /\ ~Restarted
    /\ sec = "store"
    /\ resp.status # 502
    /\ PostedCapability = Canonical(cap)
    /\ req.body.kind = "json"
    /\ Get(providers[cap], PostedSelection.provider).ok
    /\ Constructs(Get(providers[cap], PostedSelection.provider).ctor, PostedSelection.cfg)

\* The provider a selection stands for.
ProviderOfSelection(sel) ==
    IF sel.plugin # Empty
    THEN PluginProvider(sel.plugin, sel.cfg)
    ELSE InProcProvider(sel.provider, sel.cfg)

\* C22: for every capability the server serves, a valid POST
\* /providers/<capability> naming a registered provider replaces the
\* capability's active provider and persists the selection.
C22_ValidPostReplacesAndPersists ==
    \A cap \in Caps :
        ValidPost(cap) =>
            /\ resp.status = 200
            /\ handlers[cap] = ProviderOfSelection(PostedSelection)
            /\ store[providerConfigKey(cap)] =
                   Stored(PostedSelection.provider, PostedSelection.cfg, PostedSelection.plugin)

\* The capabilities for which C22 does hold.
C22_ConfigurableCapabilities ==
    \A cap \in Configurable :
        ValidPost(cap) =>
            /\ resp.status = 200
            /\ handlers[cap] = ProviderOfSelection(PostedSelection)
            /\ store[providerConfigKey(cap)] =
                   Stored(PostedSelection.provider, PostedSelection.cfg, PostedSelection.plugin)

\* The answers of a reconfiguration request rejected before any provider is
\* built.
RejectedEarly(response) ==
    /\ response.body.kind = "error"
    /\ \/ response.status = 501 /\ response.body.code = <<"secret_provider_missing">>
       \/ response.status = 404 /\ response.body.code = <<"not_found">>
       \/ response.status = 400 /\ response.body.code = <<"bad_request">>

\* C23: a reconfiguration request rejected before a new provider is built (no
\* secret store: 501; unknown capability: 404; undecodable body, missing
\* provider field, unregistered provider name or failing constructor: 400)
\* leaves every capability's active provider and the secret store unchanged.
C23_RejectedPostChangesNothing ==
    [][(~served /\ served' /\ RejectedEarly(resp')) =>
           /\ handlers' = handlers
           /\ store' = store]_vars

\* Each kind of rejection is answered.
C23_Witness ==
    /\ served
    /\ resp = writeError(400, <<"bad_request">>, <<"constructor failed">>)
    /\ handlers["incident"] = InProcProvider(Mock, "empty")
    /\ store[providerConfigKey("incident")] = Stored(Mock, "empty", Empty)

C23_UnregisteredReached ==
    /\ served
    /\ resp = writeError(400, <<"bad_request">>,
                         <<"incident", " provider ">> \o Nope \o <<" not registered">>)
    /\ handlers["incident"] = InProcProvider(Mock, "empty")

C23_NoStoreReached ==
    /\ served
    /\ sec = "nil"
    /\ resp.status = 501
    /\ handlers["incident"] = InProcProvider(Mock, "empty")

C23_MissingProviderReached ==
    /\ served
    /\ req.body.kind = "json"
    /\ resp = writeError(400, <<"bad_request">>, <<"provider required">>)

\* ------------------------------------------------------------------ registry
\* The case-folded names of the successful registrations of a capability.
RegisteredKeys(cap) == {normalize(r[2]) : r \in {x \in registered : x[1] = cap}}

\* The elements of a sequence.
Elements(q) == {q[i] : i \in 1..Len(q)}

\* A sequence of strings in ascending order with no string twice.
Ascending(q) == \A i \in 1..Len(q) : \A j \in 1..Len(q) : i < j => Less(q[i], q[j])

\* C25: after any sequence of Register calls, Names() returns exactly the
\* case-folded names of the successful registrations, each once, in ascending
\* order, and Lookup(n) reports found if and only if the case-folded n is in
\* Names().
C25_NamesAreSortedKeys ==
    \A cap \in RegCaps :
        LET ns == Names(providers[cap]) IN
            /\ Elements(ns) = RegisteredKeys(cap)
            /\ Len(ns) = Cardinality(RegisteredKeys(cap))
            /\ Ascending(ns)
            /\ \A n \in NameSet : Get(providers[cap], n).ok <=> normalize(n) \in Elements(ns)
            /\ (last.op = "Names" /\ last.cap = cap) => last.names = ns

\* C25's case: Foo and bar were registered in that order, and Names() has
\* returned bar before foo.
C25_Witness ==
    /\ last.op = "Names"
    /\ last.names = <<Bar, FooLower>>
    /\ \E c1 \in Ctors : <<last.cap, Foo, c1>> \in registered
    /\ \E c2 \in Ctors : <<last.cap, Bar, c2>> \in registered

\* C26: Lookup of a name that was never registered, after case-folding,
\* returns not-found and no error, and neither Lookup nor Names changes the
\* registry.
C26_LookupAndNamesOnlyRead ==
    [][(nops' = nops + 1 /\ last'.op \in {"Get", "Names"}) =>
          /\ providers' = providers
          /\ registered' = registered
          /\ (last'.op = "Get" /\ normalize(last'.name) \notin RegisteredKeys(last'.cap)) =>
                /\ ~last'.ok
                /\ last'.ctor = NoCtor
                /\ last'.err = "none"]_vars

\* C26's case: foo is registered, and Lookup("bar") has just returned
\* not-found.
C26_Witness ==
    /\ last.op = "Get"
    /\ last.name = Bar
    /\ ~last.ok
    /\ FooLower \in RegisteredKeys(last.cap)
    /\ Bar \notin RegisteredKeys(last.cap)

\* C27: Register with a non-empty name whose case-folded form is not yet
\* present succeeds, adds exactly that entry and leaves every existing entry
\* as it was, whatever was registered before.
C27_FreshRegisterAddsOneEntry ==
    [][(/\ nops' = nops + 1
        /\ last'.op = "Register"
        /\ last'.name # <<>>
        /\ normalize(last'.name) \notin DOMAIN providers[last'.cap])
       => (/\ last'.err = "none"
           /\ DOMAIN providers'[last'.cap] =
                  DOMAIN providers[last'.cap] \cup {normalize(last'.name)}
           /\ providers'[last'.cap][normalize(last'.name)] = last'.ctor
           /\ \A k \in DOMAIN providers[last'.cap] :
                  providers'[last'.cap][k] = providers[last'.cap][k]
           /\ \A c \in Caps \ {last'.cap} : providers'[c] = providers[c])]_vars

\* C27's case: bar was registered with one constructor, and Foo has just been
\* registered with the other.
C27_Witness ==
    /\ last.op = "Register"
    /\ last.name = Foo
    /\ last.err = "none"
    /\ last.ctor = "ctorFail"
    /\ DOMAIN providers[last.cap] = {Bar, FooLower}
    /\ providers[last.cap][Bar] = "ctorOK"
    /\ providers[last.cap][FooLower] = "ctorFail"

\* C28: Register with an empty name fails with the name-required error and
\* leaves the registry unchanged.
C28_EmptyNameRejected ==
    [][(nops' = nops + 1 /\ last'.op = "Register" /\ last'.name = <<>>) =>
          /\ last'.err = "name_required"
          /\ providers' = providers
          /\ registered' = registered]_vars

\* C28's case: Register("") has just failed on a registry that holds foo.
C28_Witness ==
    /\ last.op = "Register"
    /\ last.name = <<>>
    /\ last.err = "name_required"
    /\ DOMAIN providers[last.cap] = {FooLower}

\* -------------------------------------------------------------------- runner
\* Caller c has written its request and the plugin has not answered it.
Stalled(c) == pc[c] = "read" /\ proc = "alive" /\ stdout = <<>>

\* C29: while a request is unanswered and the process lives, the call that
\* sent it does not return and keeps the lock, whatever happens to its
\* context, and every other call on the handle stays before its write: no
\* request is written until the process is killed or the stream fails.
C29_StuckPluginStallsHandle ==
    [][\A c \in Callers :
          Stalled(c) =>
              /\ pc'[c] = "read"
              /\ mu' = c
              /\ written' = written
              /\ \A d \in Callers \ {c} :
                    /\ pc[d] \in {"idle", "done", "lock"}
                    /\ pc[d] = "lock" => pc'[d] = "lock"]_vars

\* C29's case: a call waits for an answer with its context cancelled, and a
\* later call waits for the lock with nothing written.
C29_Witness ==
    \E c \in Callers : \E d \in Callers \ {c} :
        /\ Stalled(c)
        /\ ctxDone[c]
        /\ pc[d] = "lock"
        /\ written = <<ReqId(c)>>

\* The stall ends when the process is killed: the waiting call fails and the
\* next call gets the lock.
C29_StallEndsWithProcess ==
    \E c \in Callers : \E d \in Callers \ {c} :
        /\ outcome[c] = "read_err"
        /\ exitCause = "external"
        /\ mu = d

\* ------------------------------------------------------- concurrent registry
\* The goroutines registering a name that folds to key k.
Registrants(k) ==
    {g \in DOMAIN gop : /\ gop[g].op = "Register"
                        /\ gop[g].name # <<>>
                        /\ normalize(gop[g].name) = k}

\* Those of them whose Register returned nil.
Winners(k) == {g \in Registrants(k) : gret[g].done /\ gret[g].err = "none"}

RaceKeys == {normalize(gop[g].name) : g \in {x \in DOMAIN gop : gop[x].name # <<>>}}

\* C24: of the concurrent Register calls for names folding to one key, never
\* more than one has succeeded; a call that failed did so with the duplicate
\* error and after the one that succeeded; once all have returned exactly one
\* has succeeded; and every Get of the key running among them returned either
\* not-found or the constructor of the Register that succeeded.
C24_OneConcurrentRegisterWins ==
    \A k \in RaceKeys :
        /\ Cardinality(Winners(k)) <= 1
        /\ \A g \in Registrants(k) \ Winners(k) :
              gret[g].done => /\ gret[g].err = "duplicate"
                              /\ Cardinality(Winners(k)) = 1
        /\ (Registrants(k) # {} /\ \A g \in Registrants(k) : gret[g].done)
              => Cardinality(Winners(k)) = 1
        /\ \A g \in DOMAIN gop :
              (gop[g].op = "Get" /\ normalize(gop[g].name) = k /\ gret[g].done) =>
                  \/ ~gret[g].ok /\ gret[g].ctor = NoCtor
                  \/ /\ gret[g].ok
                     /\ \E w \in Winners(k) : gret[g].ctor = gop[w].ctor

\* C24's case: two Register calls for names folding to one key were both
\* waiting for the lock at once, one of them has won and the other failed
\* with the duplicate error, and a concurrent Get returned the winner's
\* constructor.
C24_Witness ==
    \E w \in DOMAIN gop : \E l \in DOMAIN gop : \E r \in DOMAIN gop :
        /\ w # l
        /\ gop[w].name # gop[l].name
        /\ {w, l} \subseteq Registrants(FooLower)
        /\ gret[w].done /\ gret[w].err = "none"
        /\ gret[l].done /\ gret[l].err = "duplicate"
        /\ gop[r].op = "Get"
        /\ gret[r].done /\ gret[r].ok /\ gret[r].ctor = gop[w].ctor

\* A Get that ran before the winning Register stored its entry saw no entry,
\* although a Register for the key has succeeded since.
C24_EarlyGetReached ==
    \E r \in DOMAIN gop :
        /\ gop[r].op = "Get"
        /\ gret[r].done /\ ~gret[r].ok
        /\ Winners(normalize(gop[r].name)) # {}

\* A Names call ran while a Register held a place in the queue for the lock,
\* and returned the keys stored so far in ascending order.
C24_NamesReached ==
    \E r \in DOMAIN gop :
        /\ gop[r].op = "Names"
        /\ gret[r].done
        /\ gret[r].names = <<FooLower>>
        /\ \E g \in DOMAIN gop : gpc[g] = "lock"

\* ---------------------------------------------------------- several handles
\* C30: a call waiting for the lock of a handle that no other call is inside
\* finds the lock free, whatever calls on other handles are doing: a call
\* that is blocked at the lock is blocked behind a call on its own handle,
\* and a call that is blocked in its read waits for the subprocess of its
\* own handle. Responses are only ever read by calls on the handle whose
\* subprocess wrote them.
C30_HandlesDoNotWaitForEachOther ==
    \A u \in DOMAIN hpc :
        /\ (/\ hpc[u] = "lock"
            /\ \A v \in DOMAIN hpc \ {u} : hof[v] = hof[u] => ~InCallOn(v))
              => hmu[MutexOf(hof[u])] = 0
        /\ (hpc[u] = "lock" /\ Blocked(u))
              => \E v \in DOMAIN hpc \ {u} : hof[v] = hof[u] /\ InCallOn(v)
        /\ hres[u] # "crossed"

\* C30's case: on one handle a call waits for a plugin that has not answered
\* and a second call waits for the lock; a call on another handle built from
\* the same executable path got its lock while they were blocked and has
\* returned its plugin's answer.
C30_Witness ==
    \E u \in DOMAIN hpc : \E w \in DOMAIN hpc : \E v \in DOMAIN hpc :
        /\ hof[u] = hof[w] /\ u # w
        /\ hof[v] # hof[u]
        /\ hpath[hof[v]] = hpath[hof[u]]
        /\ hpc[u] = "read" /\ Blocked(u)
        /\ hpc[w] = "lock" /\ Blocked(w)
        /\ hsaw[v]
        /\ hpc[v] = "done" /\ hres[v] = "ok"

\* ------------------------------------------------------ error text exposure
\* Text t occurs in text s.
Contains(s, t) == \E i \in 0..(Len(s) - Len(t)) : SubSeq(s, i + 1, i + Len(t)) = t

UntypedLayers(err) == {i \in 1..Len(err) : err[i].kind = "plain"}

\* C31: the body answering a failed provider call carries, as its message,
\* either the Message of a typed error of the chain or a text in which no
\* text of an untyped error of the chain (the whole error when it is untyped,
\* a wrapper or a cause when it is typed) occurs.
C31_NoInternalErrorText ==
    CallFailed =>
        /\ resp.body.kind = "error"
        /\ \/ \E i \in TypedLayers(callErr) : resp.body.message = callErr[i].msg
           \/ \A i \in UntypedLayers(callErr) :
                 callErr[i].msg # <<>> => ~Contains(resp.body.message, callErr[i].msg)

\* The part of C31 the code keeps: when the failed call's error holds a typed
\* error, the message of the body is the Message of a typed error of the
\* chain, and the text of a wrapper or of a cause is not part of it.
C31_TypedErrorHidesCause ==
    (CallFailed /\ TypedLayers(callErr) # {}) =>
        /\ resp.body.kind = "error"
        /\ \E i \in TypedLayers(callErr) : resp.body.message = callErr[i].msg
        /\ resp.body.payload = ""

\* A typed error with an untyped cause was answered with the typed message.
C31_CauseHiddenReached ==
    /\ CallFailed
    /\ callErr = <<Value(<<"rate_limited">>, <<"boom">>), Plain(<<"timeout">>)>>
    /\ resp.body.message = <<"boom">>

\* ------------------------------------------------- providers over a lifetime
LiveProcesses == {i \in 1..Len(objs) : objs[i].proc = "alive"}

\* C32: s.<capability>.provider points at one object, built for that
\* capability; a step that changes the field points it at an object built in
\* that step and leaves every object built before as it was; no step changes
\* the provider an object was built as; and a field that points at an object
\* never becomes nil again.
C32_OneProviderReplacedNotMutated ==
    [][/\ \A c \in DOMAIN active :
             /\ active[c] # 0 => active'[c] # 0
             /\ active'[c] # 0 =>
                   /\ active'[c] \in 1..Len(objs')
                   /\ objs'[active'[c]].cap = c
                   /\ objs'[active'[c]].provider = handlers'[c]
             /\ active'[c] # active[c] =>
                   /\ Len(objs') = Len(objs) + 1
                   /\ active'[c] = Len(objs')
                   /\ objs'[active'[c]] = NewObject(c, handlers'[c])
                   /\ \A i \in 1..Len(objs) : objs'[i] = objs[i]
       /\ Len(objs') >= Len(objs)
       /\ \A i \in 1..Len(objs) :
             /\ objs'[i].cap = objs[i].cap
             /\ objs'[i].provider = objs[i].provider]_vars

\* C32's case: the incident provider resolved at startup, a plugin whose
\* subprocess runs, has been replaced by an in-process provider; the object
\* built at startup is as it was and is no longer the active one.
C32_Witness ==
    /\ Len(objs) >= 2
    /\ objs[1] = [cap |-> "incident", provider |-> PluginProvider(PluginQ, "empty"),
                  cmd |-> "set", proc |-> "alive"]
    /\ active["incident"] = 2
    /\ objs[2].provider = InProcProvider(Mock, "empty")
    /\ handlers["incident"] = InProcProvider(Mock, "empty")
    /\ resp.status = 200

\* A second capability has its own active provider at the same time.
C32_TwoCapabilitiesReached ==
    /\ active["incident"] # 0
    /\ active["log"] # 0
    /\ active["incident"] # active["log"]

\* --------------------------------------------------------- order of handling
\* The handler of a capability on a request.
HandlerOf(cap, s, r) ==
    CASE cap = "incident" -> handleIncident(s, r)
      [] cap = "alert" -> handleAlert(s, r)
      [] cap = "log" -> handleLog(s, r)
      [] cap = "metric" -> handleMetric(s, r)
      [] cap = "ticket" -> handleTicket(s, r)
      [] cap = "messaging" -> handleMessaging(s, r)
      [] cap = "service" -> handleService(s, r)
      [] cap = "deployment" -> handleDeployment(s, r)

\* The route of a capability: a path prefix for the capabilities with
\* several operations, the exact path of the operation for the others.
RouteMatched(cap, path) ==
    CASE cap = "incident" -> HasPrefix(path, IncidentsPath)
      [] cap = "alert" -> HasPrefix(path, AlertsPath)
      [] cap = "log" -> path = LogsQueryPath
      [] cap = "metric" -> path = MetricsQueryPath
      [] cap = "ticket" -> HasPrefix(path, TicketsPath)
      [] cap = "messaging" -> path = MessagesSendPath
      [] cap = "service" -> path \in {ServicesPath, ServicesQueryPath}
      [] cap = "deployment" -> HasPrefix(path, DeploymentsPath)

\* C33: every capability handler, on the request at hand: declines without a
\* response when the path is not on its route; on its route and without a
\* provider answers 501 <capability>_provider_missing whatever the method and
\* the body; forwards an operation only on its route, with a provider, and,
\* when the operation takes a payload, with a body that decoded. A provider
\* method that was invoked for an operation with a payload got a decoded body.
C33_HandlerChecksInOrder ==
    /\ \A cap \in Caps :
          LET g == HandlerOf(cap, handlers, req) IN
            /\ ~RouteMatched(cap, req.path) => g = Declined
            /\ (RouteMatched(cap, req.path) /\ handlers[cap] = NilProvider) =>
                  g = Written(Response(501, ErrorBody(<<cap, "_provider_missing">>,
                                                      <<cap, " provider not configured">>)))
            /\ g.kind = "forward" =>
                  /\ RouteMatched(cap, req.path)
                  /\ handlers[cap] # NilProvider
                  /\ g.op.capability = cap
                  /\ HandlerOf(cap, handlers, [req EXCEPT !.body = BodyBroken]).kind
                        = "written" => req.body \notin UndecodableBodies
    /\ (served /\ invoked # <<>>) =>
          /\ RouteMatched(invoked[1].capability, req.path)
          /\ handlers[invoked[1].capability] # NilProvider
          /\ req.method \in {"POST", "PATCH"} => req.body \notin UndecodableBodies

\* C33's case: a POST on /incidents/query with a body that does not decode,
\* while the incident provider is configured: the request passed the route
\* and the provider check and stopped at the payload, before any call.
C33_Witness ==
    /\ served
    /\ Dispatched(req)
    /\ req.method = "POST"
    /\ req.path = IncidentsPath \o Slash \o QuerySeg
    /\ req.body = BodyUnknown
    /\ handlers["incident"] # NilProvider
    /\ resp.status = 400
    /\ invoked = <<>>

\* On a route without a provider, a method and a body that no operation of
\* the capability takes are answered provider-missing all the same.
C33_MissingBeforeMethodReached ==
    /\ served
    /\ Dispatched(req)
    /\ req.method = "PATCH"
    /\ req.path = MessagesSendPath
    /\ req.body = BodyBroken
    /\ handlers["messaging"] = NilProvider
    /\ resp.status = 501

\* A bundled mock plugin reported an error for the call of the request served.
MockReported == served /\ rpc.kind = "string_error"

\* C34: when a bundled mock plugin reports an error (an id it does not hold,
\* a method it does not know), the runner's call fails and the text of its
\* error holds the message the plugin wrote.
C34_MockErrorReachesCaller ==
    MockReported =>
        /\ callErr # NoErr
        /\ Contains(ErrorText(callErr), rpc.error.message)

\* The part of C34 the code keeps: the call fails, and no value is returned.
C34_MockErrorFailsCall ==
    MockReported => (callErr # NoErr /\ resp.status = 502)

\* incident.get of an id the plugin does not hold was answered "not found".
C34_NotFoundReached ==
    /\ MockReported
    /\ rpc.error.message = <<"not found">>
    /\ invoked # <<>>
    /\ invoked[1] = Invocation(Operation("incident", "Get", <<"get">>, "item", 200, <<>>))

\* Caller c's call returns the error of a failed start in this step.
StartFails(c) == pc[c] = "start" /\ pc'[c] = "done" /\ outcome'[c] = "start_err"

\* C35: a call whose start of the subprocess fails returns that error and
\* leaves the handle unstarted (no cmd, and with it no encoder or decoder, no
\* process, nothing written), and a call that finds the handle unstarted
\* attempts the start: it starts the process or returns the start's error,
\* and never goes on to write.
C35_FailedStartLeavesHandleUnstarted ==
    [][\A c \in Callers :
          /\ StartFails(c) =>
                /\ cmd = "nil" /\ cmd' = "nil"
                /\ result'[c] = NoResult
                /\ UNCHANGED <<proc, stdin, stdout, decErr, starts, written>>
          /\ (pc[c] = "start" /\ cmd = "nil" /\ pc'[c] # "start") =>
                \/ StartFails(c)
                \/ starts' = starts + 1 /\ proc' = "alive" /\ cmd' = "set"]_vars

\* A start failed, and a later call started the subprocess.
C35_Witness ==
    /\ \E c \in Callers : outcome[c] = "start_err"
    /\ cmd = "set" /\ starts = 1

\* The ways call returns: the start fails, the write fails, the decode fails,
\* the plugin reports an error, the result does not fit the output, success.
ReturnPaths == {"start_err", "write_err", "read_err", "plugin_err", "unmarshal_err", "ok"}

\* C36: a call that has returned, by whichever path, does not hold the
\* handle's lock: the lock is held only by a call between its Lock and its
\* return, so a call waiting for the lock waits only for a call in progress.
C36_ReturnedCallHoldsNoLock ==
    /\ \A c \in Callers :
          pc[c] = "done" => (outcome[c] \in ReturnPaths /\ mu # c)
    /\ mu # 0 => (mu \in Callers /\ pc[mu] \in {"start", "write", "read"})
    /\ (\A c \in Callers : pc[c] \in {"idle", "done", "lock"}) => mu = 0

\* A call returned a plugin's error and another call took the lock after it.
C36_Witness ==
    \E c \in Callers : \E d \in Callers \ {c} :
        pc[c] = "done" /\ outcome[c] = "plugin_err" /\ mu = d


\* A call returned by the given path and another call took the lock after it.
LockTakenAfter(how) ==
    \E c \in Callers : \E d \in Callers \ {c} :
        pc[c] = "done" /\ outcome[c] = how /\ mu = d

C36_StartFailureReached == LockTakenAfter("start_err")
C36_WriteFailureReached == LockTakenAfter("write_err")
C36_DecodeFailureReached == LockTakenAfter("read_err")
C36_MisfitReached == LockTakenAfter("unmarshal_err")
C36_SuccessReached == LockTakenAfter("ok")

\* The provider a reconfiguration request selects, once built.
Selected(r) ==
    LET d == decodeConfigRequest(r.body) IN
    IF d.req.plugin # Empty
    THEN PluginProvider(d.req.plugin, d.req.cfg)
    ELSE InProcProvider(d.req.provider, d.req.cfg)

\* C37: a reconfiguration the store refuses is answered 502
\* secret_store_error; the provider the request selects is the capability's
\* active provider all the same, the other capabilities keep theirs, the
\* store holds what it held before and no audit entry is logged. The store
\* is refused exactly the requests it would otherwise have accepted with 200.
C37_FailedPutKeepsNewProvider ==
    [][(~served /\ served') =>
         LET c == normalizeCapability(TrimPrefix(req.path, ProvidersPrefix)).capability
             accepted == handleProviderConfig(handlers, store, sec, req, TRUE)
             refused == handleProviderConfig(handlers, store, sec, req, FALSE)
         IN  /\ accepted.resp.status = 200 <=> refused.resp.status = 502
             /\ resp'.status = 502 =>
                   /\ resp'.body.kind = "error"
                   /\ resp'.body.code = <<"secret_store_error">>
                   /\ handlers' = [handlers EXCEPT ![c] = Selected(req)]
                   /\ handlers'[c] # NilProvider
                   /\ store' = store
                   /\ audit' = <<>>]_vars

\* The store refused a selection of a plugin for a capability that had an
\* in-process provider stored: the plugin is active, the store holds the old
\* selection.
C37_Witness ==
    /\ served /\ resp.status = 502
    /\ handlers["incident"] = PluginProvider(PluginP, "empty")
    /\ store[providerConfigKey("incident")] = Stored(Mock, "empty", Empty)

\* The store refused the first selection of a capability: it holds none.
C37_NoneStoredReached ==
    /\ served /\ resp.status = 502
    /\ handlers["log"] # NilProvider
    /\ store[providerConfigKey("log")] = Missing

\* A step of the core: a reconfiguration, a handler reading its provider, a
\* call of the provider read; that is, every step that is not the exit of a
\* subprocess by itself.
CoreStep == ~(\E i \in 1..Len(objs) : ObjExit(i))

\* C38: no step of the core ends, or waits for the end of, a subprocess:
\* every object built stays, a subprocess alive before the step is alive
\* after it (that of a provider the step replaces included), and the only
\* change of a subprocess is its start; the number of live subprocesses
\* does not decrease.
C38_CoreNeverStopsSubprocess ==
    [][CoreStep =>
         /\ Len(objs') >= Len(objs)
         /\ \A i \in 1..Len(objs) :
               \/ objs'[i].proc = objs[i].proc
               \/ objs[i].proc = "none" /\ objs'[i].proc = "alive"
         /\ LiveProcesses \subseteq LiveProcesses'
         /\ Cardinality(LiveProcesses') >= Cardinality(LiveProcesses)]_vars

\* A plugin provider with a live subprocess was replaced: the subprocess
\* lives on, and no handler points at its provider.
C38_Witness ==
    \E i \in 1..Len(objs) :
        /\ objs[i].provider.kind = "plugin"
        /\ objs[i].proc = "alive"
        /\ \A c \in Caps : active[c] # i
        /\ active[objs[i].cap] # 0

\* Whether each handler of the switch, in its order, accepts the request.
Accepts(s, r) ==
    << ~DeclinesProviders(r), ~DeclinesProviderConfig(r),
       handleIncident(s, r).kind # "declined", handleAlert(s, r).kind # "declined",
       handleLog(s, r).kind # "declined", handleMetric(s, r).kind # "declined",
       handleTicket(s, r).kind # "declined", handleMessaging(s, r).kind # "declined",
       handleService(s, r).kind # "declined", handleDeployment(s, r).kind # "declined" >>

\* The capability handlers of the switch, by their place in it.
Handler(i, s, r) ==
    <<handleProviders(r), Declined, handleIncident(s, r), handleAlert(s, r),
      handleLog(s, r), handleMetric(s, r), handleTicket(s, r), handleMessaging(s, r),
      handleService(s, r), handleDeployment(s, r)>>[i]

\* C39: serving a request writes exactly one response. The handlers are
\* tried in the order of the switch: the response is that of the first
\* handler that accepts the request (for a capability handler that forwards,
\* the response to its one provider call); every handler that returns true
\* has written one response and every handler that returns false none; a
\* request no handler accepts is answered 404. A request stopped before the
\* switch (OPTIONS, a missing bearer token, / and /health) runs no handler.
C39_ExactlyOneResponse ==
    [][(~served /\ served') =>
         LET acc == Accepts(handlers, req)
             first == {i \in 1..Len(acc) : acc[i] /\ \A j \in 1..(i - 1) : ~acc[j]}
             cases == Cases(handlers, req, wrote', wrote')
         IN  /\ Len(wrote') = 1
             /\ resp' = wrote'[1]
             /\ resp' # NoResponse
             /\ ~ReachesHandlers(bearer, req) =>
                   (handlers' = handlers /\ store' = store /\ invoked' = <<>>)
             /\ ReachesHandlers(bearer, req) =>
                   /\ first = {} => wrote' = <<NotFound>>
                   /\ \A i \in 1..Len(cases) :
                         /\ cases[i].ok => Len(cases[i].writes) = 1
                         /\ ~cases[i].ok => cases[i].writes = <<>>
                   /\ \A i \in first :
                         IF i = 2
                         THEN /\ \E putOK \in BOOLEAN :
                                    resp' = handleProviderConfig(handlers, store, sec, req,
                                                                 putOK).resp
                              /\ invoked' = <<>>
                         ELSE LET g == Handler(i, handlers, req) IN
                              IF g.kind = "written"
                              THEN wrote' = <<g.resp>> /\ invoked' = <<>>
                              ELSE /\ invoked' = <<Invocation(g.op)>>
                                   /\ callErr' = NoErr => resp'.status = g.op.status]_vars

\* A request that reached the switch and that no handler accepted was
\* answered 404, once.
C39_Witness ==
    /\ served
    /\ ReachesHandlers(bearer, req)
    /\ \A i \in 1..10 : ~Accepts(handlers, req)[i]
    /\ wrote = <<NotFound>>

\* The listing of a capability's providers was the one response.
C39_ProvidersReached ==
    served /\ ~DeclinesProviders(req) /\ Len(wrote) = 1 /\ resp.status = 200

\* A reconfiguration was the one response.
C39_ProviderConfigReached ==
    served /\ ~DeclinesProviderConfig(req) /\ Len(wrote) = 1 /\ resp.status = 200

\* A capability handler called its provider and wrote the one response.
C39_ForwardReached ==
    served /\ invoked # <<>> /\ Len(wrote) = 1 /\ resp.status = 200

====
